---- MODULE Spec2Model ----
(***************************************************************************)
(* A model of the anomaly scoring engine of the IDS dashboard              *)
(* (src/src/utils/anomalyDetector.ts, class AnomalyDetector).              *)
(*                                                                         *)
(* Conventions.                                                            *)
(*  - A NetworkPacket is a record [timestamp, sourceIP, destIP,            *)
(*    sourcePort, destPort, protocol, size, flags]; id and payload are     *)
(*    never read by the detector and are left out.                         *)
(*  - An IPv4 address "a.b.c.d" is the tuple <<a, b, c, d>>; the regular   *)
(*    expressions of isPrivateIP / isSuspiciousIP test its leading octets. *)
(*  - Timestamps and Date.now() are milliseconds since the epoch, taken    *)
(*    in the first days of 1970 so that they fit TLC's 32-bit integers.    *)
(*  - JavaScript numbers that need not be integers (avgPacketSize and the  *)
(*    scores derived from it) are exact rationals [n |-> .., d |-> ..],    *)
(*    d > 0, in lowest terms.  Division by zero gives the IEEE values      *)
(*    Infinity and NaN, modelled by DevInf and DevNaN.  A double differs   *)
(*    from the rational it stands for by a relative error near 2^-53,      *)
(*    which no comparison or rounding of the program can see unless the    *)
(*    rational lies exactly on the boundary compared with; where it does   *)
(*    (a quotient that ends in .5 under Math.round, a deviation of exactly *)
(*    2, two equal contributions under sort), the value is computed in     *)
(*    IEEE 754 binary64 arithmetic, operation by operation.                *)
(*  - A factor weight is held in hundredths: weight 0.2 is 20.             *)
(*  - A Map is a function whose DOMAIN is the set of keys present.         *)
(***************************************************************************)
EXTENDS Integers, Sequences, FiniteSets, TLC

VARIABLES
    baseline,            \* the fields of the object this.baseline
    packetHistory,       \* this.packetHistory, most recent first
    connectionPatterns,  \* this.connectionPatterns: Map<string, number>
    protocolStats,       \* this.protocolStats: Map<string, number>
    portStats,           \* this.portStats: Map<number, number>
    portOrder,           \* the keys of this.portStats in insertion order
    lastResult,          \* <<>> or <<r>>: the last AnomalyAnalysis a caller got and holds
    monitor,             \* the RealTimeMonitor singleton and what it last sent
    security,            \* the SecurityEngine singleton and what it last sent
    system,              \* the RealTimeSystemMonitor singleton and its timers
    tz,                  \* the host's offset from UTC in ms (what Date#getHours adds)
    analysed,            \* history variable: every packet analysed, oldest first
    baselineUsed,        \* history variable: value of baseline when lastResult was made
    emitted,             \* history variable: factors of lastResult as the analyzers pushed them
    lastCall,            \* history variable: the last operation called and its argument
                         \* (for getBaseline also the operation called before it)
    returned,            \* <<>> or <<v>>: what the last getBaseline or getStatistics returned
    calls                \* history variable: operations called since the initial state

vars == <<baseline, packetHistory, connectionPatterns, protocolStats, portStats, portOrder,
          lastResult, monitor, security, system, tz, analysed, baselineUsed, emitted,
          lastCall, returned, calls>>

engineVars ==
    <<baseline, packetHistory, connectionPatterns, protocolStats, portStats, portOrder>>

----------------------------------------------------------------------------
(* Program constants *)

HistoryCap == 1000

MinBaselineSamples == 100

MaxCommonPorts == 20

MaxTopPorts == 10

MsPerHour == 60 * 60 * 1000

(* Bound of the model: the number of operations in one behaviour *)
MaxCalls == 3

----------------------------------------------------------------------------
(* Arithmetic helpers *)

(* const x = v; F(x): v is evaluated once and F reads its value *)
Let(v, F(_)) == CHOOSE y \in {F(x) : x \in {v}} : TRUE

Abs(x) == IF x < 0 THEN -x ELSE x

Min(a, b) == IF a <= b THEN a ELSE b

RECURSIVE GCD(_, _)
GCD(a, b) == IF b = 0 THEN a ELSE GCD(b, a % b)

Rat(n, d) == Let(GCD(Abs(n), d), LAMBDA g : [n |-> n \div g, d |-> d \div g])

RatInt(k) == [n |-> k, d |-> 1]

RatLess(a, b) == a.n * b.d < b.n * a.d

Take(s, k) == SubSeq(s, 1, Min(k, Len(s)))

Range(s) == {s[i] : i \in 1..Len(s)}

Includes(s, x) == \E i \in 1..Len(s) : s[i] = x

Filter(s, Test(_)) == SelectSeq(s, Test)

MapGet(m, k) == IF k \in DOMAIN m THEN m[k] ELSE 0

MapIncrement(m, k) == [x \in DOMAIN m \cup {k} |-> IF x = k THEN MapGet(m, k) + 1 ELSE m[x]]

EmptyMap == [x \in {} |-> 0]

(* Math.round: the nearest integer, halves rounded up; here of n/d, n >= 0, d > 0 *)
MathRound(n, d) == (2 * n + d) \div (2 * d)

(* Date#getHours of a timestamp, in the host's time zone *)
GetHours(timestamp, offset) == ((timestamp + offset) \div MsPerHour) % 24

----------------------------------------------------------------------------
(* IEEE 754 binary64 arithmetic.  A natural number of any size is the sequence of
   its digits to the base 2^15, the lowest first and the highest not 0; a double
   that is positive is m * 2^e with 0 < m < 2^53, and 0 has no digits. *)

LimbBits == 15

Limb == 2 ^ LimbBits

MantissaBits == 53

BLimb(x, i) == IF i \in 1..Len(x) THEN x[i] ELSE 0

RECURSIVE BTrim(_)
BTrim(x) ==
    IF x = <<>> \/ x[Len(x)] # 0 THEN x ELSE BTrim(SubSeq(x, 1, Len(x) - 1))

RECURSIVE BFromInt(_)
BFromInt(k) == IF k = 0 THEN <<>> ELSE <<k % Limb>> \o BFromInt(k \div Limb)

RECURSIVE BToInt(_)
BToInt(x) == IF x = <<>> THEN 0 ELSE x[1] + Limb * BToInt(Tail(x))

RECURSIVE BAddFrom(_, _, _, _)
BAddFrom(x, y, i, carry) ==
    IF i > Len(x) /\ i > Len(y)
    THEN (IF carry = 0 THEN <<>> ELSE <<carry>>)
    ELSE Let(BLimb(x, i) + BLimb(y, i) + carry, LAMBDA s :
             <<s % Limb>> \o BAddFrom(x, y, i + 1, s \div Limb))

BAdd(x, y) == BAddFrom(x, y, 1, 0)

RECURSIVE BSubFrom(_, _, _, _)
BSubFrom(x, y, i, borrow) ==
    IF i > Len(x) THEN <<>>
    ELSE Let(x[i] - BLimb(y, i) - borrow, LAMBDA d :
             <<(d + Limb) % Limb>> \o BSubFrom(x, y, i + 1, IF d < 0 THEN 1 ELSE 0))

(* x - y for x >= y *)
BSub(x, y) == BTrim(BSubFrom(x, y, 1, 0))

BLess(x, y) ==
    IF Len(x) # Len(y) THEN Len(x) < Len(y)
    ELSE \E i \in 1..Len(x) :
            x[i] < y[i] /\ \A j \in (i + 1)..Len(x) : x[j] = y[j]

RECURSIVE BMulSmallFrom(_, _, _, _)
BMulSmallFrom(x, k, i, carry) ==
    IF i > Len(x) THEN (IF carry = 0 THEN <<>> ELSE <<carry>>)
    ELSE Let(x[i] * k + carry, LAMBDA p :
             <<p % Limb>> \o BMulSmallFrom(x, k, i + 1, p \div Limb))

(* x * k for a digit k *)
BMulSmall(x, k) == IF k = 0 THEN <<>> ELSE BMulSmallFrom(x, k, 1, 0)

BShiftLimbs(x, count) == IF x = <<>> THEN <<>> ELSE [i \in 1..count |-> 0] \o x

RECURSIVE BMulFrom(_, _, _)
BMulFrom(x, y, i) ==
    IF i > Len(y) THEN <<>>
    ELSE BAdd(BShiftLimbs(BMulSmall(x, y[i]), i - 1), BMulFrom(x, y, i + 1))

BMul(x, y) == BMulFrom(x, y, 1)

(* x * 2^s *)
BShl(x, s) == BShiftLimbs(BMulSmall(x, 2 ^ (s % LimbBits)), s \div LimbBits)

(* the integer part of x / 2^s *)
BShr(x, s) ==
    IF s \div LimbBits >= Len(x) THEN <<>>
    ELSE Let(SubSeq(x, s \div LimbBits + 1, Len(x)), LAMBDA y :
             BTrim([i \in 1..Len(y) |->
                       y[i] \div 2 ^ (s % LimbBits)
                         + (BLimb(y, i + 1) % 2 ^ (s % LimbBits))
                             * 2 ^ (LimbBits - (s % LimbBits))]))

BBitLen(x) ==
    IF x = <<>> THEN 0
    ELSE LimbBits * (Len(x) - 1)
            + (CHOOSE b \in 1..LimbBits : 2 ^ (b - 1) <= x[Len(x)] /\ x[Len(x)] < 2 ^ b)

(* bit i of x, bit 0 being the lowest *)
BBit(x, i) == (BLimb(x, i \div LimbBits + 1) \div 2 ^ (i % LimbBits)) % 2

(* the s lowest bits of x are all 0 *)
BLowZero(x, s) == BShl(BShr(x, s), s) = x

DZero == [m |-> <<>>, e |-> 0]

(* The double nearest to (m + f) * 2^e, where 0 <= f < 1 and f > 0 exactly when
   sticky, and m has at least 55 bits when sticky: round to nearest, ties to even *)
DRound(m, e, sticky) ==
    IF m = <<>> THEN DZero
    ELSE Let(BBitLen(m) - MantissaBits, LAMBDA s :
         IF s <= 0 THEN [m |-> BShl(m, -s), e |-> e + s]
         ELSE Let(BShr(m, s), LAMBDA top :
              Let(IF BBit(m, s - 1) = 1
                     /\ (sticky \/ ~BLowZero(m, s - 1) \/ BBit(top, 0) = 1)
                  THEN BAdd(top, <<1>>) ELSE top, LAMBDA rounded :
                  IF BBitLen(rounded) > MantissaBits
                  THEN [m |-> BShr(rounded, 1), e |-> e + s + 1]
                  ELSE [m |-> rounded, e |-> e + s])))

(* the double of an integer 0 <= k < 2^31 *)
DFromInt(k) == [m |-> BFromInt(k), e |-> 0]

(* the same double with 2^52 <= m *)
DNormal(x) == DRound(x.m, x.e, FALSE)

DMul(x, y) == DRound(BMul(x.m, y.m), x.e + y.e, FALSE)

(* the digits of x and y at the lower of the two exponents *)
DAligned(x, y) ==
    IF x.m = <<>> THEN [x |-> <<>>, y |-> y.m, e |-> y.e]
    ELSE IF y.m = <<>> THEN [x |-> x.m, y |-> <<>>, e |-> x.e]
    ELSE Let(Min(x.e, y.e), LAMBDA e :
             [x |-> BShl(x.m, x.e - e), y |-> BShl(y.m, y.e - e), e |-> e])

DAdd(x, y) == Let(DAligned(x, y), LAMBDA a : DRound(BAdd(a.x, a.y), a.e, FALSE))

DLess(x, y) == Let(DAligned(x, y), LAMBDA a : BLess(a.x, a.y))

(* Math.abs(x - y) *)
DAbsDiff(x, y) ==
    Let(DAligned(x, y), LAMBDA a :
        IF BLess(a.x, a.y) THEN DRound(BSub(a.y, a.x), a.e, FALSE)
        ELSE DRound(BSub(a.x, a.y), a.e, FALSE))

(* A natural number below 2^56 as its two halves hi * 2^HalfBits + lo *)
HalfBits == 28

Halves(x) ==
    Let(BShr(x, HalfBits), LAMBDA high :
        [hi |-> BToInt(high), lo |-> BToInt(BSub(x, BShl(high, HalfBits)))])

(* one more bit of the quotient q, with remainder r, of a division by d: the
   remainder is doubled and d subtracted from it where it is not less than d *)
DivBit(r, d, q) ==
    Let([hi |-> 2 * r.hi + (2 * r.lo) \div 2 ^ HalfBits,
         lo |-> (2 * r.lo) % 2 ^ HalfBits], LAMBDA r2 :
        IF r2.hi < d.hi \/ (r2.hi = d.hi /\ r2.lo < d.lo)
        THEN [r |-> r2, q |-> 2 * q]
        ELSE [r |-> [hi |-> r2.hi - d.hi - (IF r2.lo < d.lo THEN 1 ELSE 0),
                     lo |-> (r2.lo - d.lo + 2 ^ HalfBits) % 2 ^ HalfBits],
              q |-> 2 * q + 1])

RECURSIVE DivBits(_, _, _, _)
(* count more bits of the quotient, by halves *)
DivBits(r, d, q, count) ==
    IF count = 0 THEN [r |-> r, q |-> q]
    ELSE IF count = 1 THEN DivBit(r, d, q)
    ELSE Let(DivBits(r, d, q, count \div 2), LAMBDA half :
             DivBits(half.r, d, half.q, count - count \div 2))

(* x / y for y > 0: with both normal, 56 bits of x.m / (2 * y.m) < 1, of which at
   least 55 count, found 28 at a time *)
DDiv(x, y) ==
    IF x.m = <<>> THEN DZero
    ELSE Let(DNormal(x), LAMBDA a :
         Let(DNormal(y), LAMBDA b :
         Let(Halves(BAdd(b.m, b.m)), LAMBDA d :
         Let(DivBits(Halves(a.m), d, 0, HalfBits), LAMBDA high :
         Let(DivBits(high.r, d, 0, HalfBits), LAMBDA low :
             DRound(BAdd(BShl(BFromInt(high.q), HalfBits), BFromInt(low.q)),
                    a.e - b.e + 1 - 2 * HalfBits,
                    low.r.hi # 0 \/ low.r.lo # 0))))))

(* Math.round of a double below 2^31: the nearest integer, halves rounded up *)
DMathRound(x) ==
    IF x.m = <<>> THEN 0
    ELSE IF x.e >= 0 THEN BToInt(BShl(x.m, x.e))
    ELSE BToInt(BShr(x.m, -x.e)) + BBit(x.m, -x.e - 1)

(* the double a decimal literal of hundredths denotes, e.g. 0.15 *)
DHundredths(k) == DDiv(DFromInt(k), DFromInt(100))

(* The doubles the literals 0.05, 0.1, ..., 0.4 denote, by their hundredths:
   DNormal(DHundredths(k)), written out *)
WeightDouble(k) ==
    CASE k = 5 -> [m |-> <<6554, 13107, 26214, 204>>, e |-> -57]
      [] k = 10 -> [m |-> <<6554, 13107, 26214, 204>>, e |-> -56]
      [] k = 15 -> [m |-> <<13107, 26214, 19660, 153>>, e |-> -55]
      [] k = 20 -> [m |-> <<6554, 13107, 26214, 204>>, e |-> -55]
      [] k = 25 -> [m |-> <<0, 0, 0, 128>>, e |-> -54]
      [] k = 30 -> [m |-> <<13107, 26214, 19660, 153>>, e |-> -54]
      [] k = 35 -> [m |-> <<26214, 19660, 6553, 179>>, e |-> -54]
      [] k = 40 -> [m |-> <<6554, 13107, 26214, 204>>, e |-> -54]

----------------------------------------------------------------------------
(* The baseline and the factors *)

initializeBaseline ==
    [avgPacketSize |-> RatInt(512),
     commonPorts |-> <<80, 443, 22, 21, 25, 53, 110, 143, 993, 995>>,
     typicalProtocols |-> <<"TCP", "UDP", "HTTP", "HTTPS">>,
     normalFrequency |-> 10,
     establishedConnections |-> <<(<<192, 168, 1, 1>>), (<<8, 8, 8, 8>>), (<<1, 1, 1, 1>>)>>]

Factor(type, description, score, weight, evidence) ==
    [type |-> type, description |-> description, score |-> score,
     weight |-> weight, evidence |-> evidence]

Opt(cond, factor) == IF cond THEN <<factor>> ELSE <<>>

(* |size - avg| / avg as JavaScript computes it: x/0 is Infinity, 0/0 is NaN *)
DevInf == [kind |-> "Infinity", n |-> 1, d |-> 1]

DevNaN == [kind |-> "NaN", n |-> 0, d |-> 1]

(* the rational n/d, with the operands it is computed from *)
SizeDeviation(size, avg) ==
    IF avg.n = 0
    THEN (IF size = 0 THEN DevNaN ELSE DevInf)
    ELSE [kind |-> "number", n |-> Abs(size * avg.d - avg.n), d |-> avg.n,
          size |-> size, avg |-> avg]

(* Math.abs(size - avgPacketSize) / avgPacketSize as a double; avgPacketSize is the
   double of the quotient totalSize / packets.length *)
DSizeDeviation(size, avg) ==
    Let(DDiv(DFromInt(avg.n), DFromInt(avg.d)), LAMBDA avgPacketSize :
        DDiv(DAbsDiff(DFromInt(size), avgPacketSize), avgPacketSize))

(* sizeDeviation > 2.0: false for NaN *)
DevAbove2(dev) ==
    \/ dev.kind = "Infinity"
    \/ dev.kind = "number" /\ dev.n > 2 * dev.d
    \/ dev.kind = "number" /\ dev.n = 2 * dev.d
          /\ DLess(DFromInt(2), DSizeDeviation(dev.size, dev.avg))

(* Math.min(sizeDeviation * 30, 100): a score that is not the cap keeps the operands
   of the deviation *)
DevScore(dev) ==
    IF dev.kind = "Infinity" \/ 30 * dev.n > 100 * dev.d
    THEN RatInt(100)
    ELSE Let(Rat(30 * dev.n, dev.d), LAMBDA score :
             [n |-> score.n, d |-> score.d, size |-> dev.size, avg |-> dev.avg])

(* factor.score as a double *)
DScore(score) ==
    IF "size" \in DOMAIN score
    THEN Let(DMul(DSizeDeviation(score.size, score.avg), DFromInt(30)), LAMBDA scaled :
             IF DLess(DFromInt(100), scaled) THEN DFromInt(100) ELSE scaled)
    ELSE IF score.d = 1 THEN DFromInt(score.n)
    ELSE DDiv(DFromInt(score.n), DFromInt(score.d))

analyzePacketSize(packet, base) ==
    Let(SizeDeviation(packet.size, base.avgPacketSize), LAMBDA sizeDeviation :
        Opt(DevAbove2(sizeDeviation),
            Factor("SIZE", "Unusual packet size detected",
                   DevScore(sizeDeviation), 20, <<packet.size>>))
        \o Opt(packet.size > 10000,
               Factor("SIZE", "Extremely large packet detected",
                      RatInt(85), 30, <<packet.size>>))
        \o Opt(packet.size < 20 /\ packet.protocol # "ICMP",
               Factor("SIZE", "Suspiciously small packet",
                      RatInt(60), 15, <<packet.size>>)))

(* Number of packets of the history from sourceIP with now - timestamp < window *)
RecentFromSource(hist, sourceIP, now, window) ==
    Filter(hist, LAMBDA p : now - p.timestamp < window /\ p.sourceIP = sourceIP)

(* Variant of analyzeFrequency: the score is (frequency / normalFrequency) * 10 *)
analyzeFrequencyTimesTen(packet, base, hist, now) ==
    Let(Len(RecentFromSource(hist, packet.sourceIP, now, 10000)), LAMBDA n :
    Let(Len(RecentFromSource(hist, packet.sourceIP, now, 1000)), LAMBDA burst :
        Opt(n > base.normalFrequency * 5 * 10,
            Factor("FREQUENCY", "High frequency traffic from source",
                   IF n >= 100 * base.normalFrequency
                   THEN RatInt(100) ELSE Rat(n, base.normalFrequency),
                   25, <<n>>))
        \o Opt(burst > 50,
               Factor("FREQUENCY", "Traffic burst detected",
                      RatInt(90), 30, <<burst>>))))

(* With n = recentPackets.length and burst = burstWindow.length: frequency = n / 10;
   frequency > normalFrequency * 5 is n > 50 * normalFrequency;
   (frequency / normalFrequency) * 20 is 2 * n / normalFrequency *)
analyzeFrequency(packet, base, hist, now) ==
    Let(Len(RecentFromSource(hist, packet.sourceIP, now, 10000)), LAMBDA n :
    Let(Len(RecentFromSource(hist, packet.sourceIP, now, 1000)), LAMBDA burst :
        Opt(n > base.normalFrequency * 5 * 10,
            Factor("FREQUENCY", "High frequency traffic from source",
                   IF 2 * n >= 100 * base.normalFrequency
                   THEN RatInt(100) ELSE Rat(2 * n, base.normalFrequency),
                   25, <<n>>))
        \o Opt(burst > 50,
               Factor("FREQUENCY", "Traffic burst detected",
                      RatInt(90), 30, <<burst>>))))

analyzeProtocol(packet, base) ==
    Opt(~Includes(base.typicalProtocols, packet.protocol),
        Factor("PROTOCOL", "Unusual protocol detected", RatInt(40), 15, <<>>))
    \o Opt(packet.protocol = "ICMP" /\ packet.size > 1000,
           Factor("PROTOCOL", "Large ICMP packet (potential tunneling)",
                  RatInt(75), 25, <<packet.size>>))
    \o Opt(packet.protocol = "UDP" /\ packet.destPort \in {22, 23, 80, 443},
           Factor("PROTOCOL", "Unusual protocol/port combination",
                  RatInt(65), 20, <<packet.destPort>>))

analyzePorts(packet, base, ports) ==
    Let(MapGet(ports, packet.destPort), LAMBDA portUsage :
        Opt(~Includes(base.commonPorts, packet.destPort) /\ portUsage < 5,
            Factor("PROTOCOL", "Connection to uncommon port",
                   RatInt(45), 10, <<packet.destPort, portUsage>>))
        \o Opt(packet.sourcePort > 60000,
               Factor("BEHAVIOR", "High source port number",
                      RatInt(30), 5, <<packet.sourcePort>>))
        \o Opt(packet.destPort \in {1433, 3389, 5432, 27017, 6379, 9200},
               Factor("PROTOCOL", "Connection to potentially vulnerable service",
                      RatInt(55), 20, <<packet.destPort>>)))

(* Variant of analyzeTiming: ten packets are a rapid sequence *)
analyzeTimingFromTen(packet, hist, offset) ==
    Let(GetHours(packet.timestamp, offset), LAMBDA hour :
    Let(Filter(hist, LAMBDA p : p.sourceIP = packet.sourceIP
                                /\ Abs(p.timestamp - packet.timestamp) < 100),
        LAMBDA recentSameSource :
        Opt(hour < 6 \/ hour > 22,
            Factor("TIMING", "Off-hours network activity", RatInt(35), 10, <<hour>>))
        \o Opt(Len(recentSameSource) >= 10,
               Factor("TIMING", "Rapid sequential connections",
                      RatInt(70), 20, <<Len(recentSameSource)>>))))

analyzeTiming(packet, hist, offset) ==
    Let(GetHours(packet.timestamp, offset), LAMBDA hour :
    Let(Filter(hist, LAMBDA p : p.sourceIP = packet.sourceIP
                                /\ Abs(p.timestamp - packet.timestamp) < 100),
        LAMBDA recentSameSource :
        Opt(hour < 6 \/ hour > 22,
            Factor("TIMING", "Off-hours network activity", RatInt(35), 10, <<hour>>))
        \o Opt(Len(recentSameSource) > 10,
               Factor("TIMING", "Rapid sequential connections",
                      RatInt(70), 20, <<Len(recentSameSource)>>))))

(* /^10\./, /^172\.(1[6-9]|2[0-9]|3[0-1])\./, /^192\.168\./, /^127\./ *)
isPrivateIP(ip) ==
    \/ ip[1] = 10
    \/ ip[1] = 172 /\ ip[2] \in 16..31
    \/ ip[1] = 192 /\ ip[2] = 168
    \/ ip[1] = 127

(* /^203\.0\.113\./, /^198\.51\.100\./, /^192\.0\.2\./ *)
isSuspiciousIP(ip) ==
    \/ ip[1] = 203 /\ ip[2] = 0 /\ ip[3] = 113
    \/ ip[1] = 198 /\ ip[2] = 51 /\ ip[3] = 100
    \/ ip[1] = 192 /\ ip[2] = 0 /\ ip[3] = 2

analyzeGeolocation(packet, base) ==
    Opt(~isPrivateIP(packet.sourceIP)
        /\ ~Includes(base.establishedConnections, packet.sourceIP),
        Factor("GEOLOCATION", "Connection from unknown external IP",
               RatInt(50), 15, <<>>))
    \o Opt(isSuspiciousIP(packet.sourceIP),
           Factor("GEOLOCATION", "Connection from suspicious IP range",
                  RatInt(80), 25, <<>>))

(* `${packet.sourceIP}:${packet.destIP}` *)
ConnectionKey(packet) == packet.sourceIP \o <<":">> \o packet.destIP

(* Variant of analyzeBehavior: a new connection scores 10 *)
analyzeBehaviorFaintNew(packet, hist, conns, now) ==
    Let(Filter(hist, LAMBDA p : p.sourceIP = packet.sourceIP
                                /\ now - p.timestamp < 60000), LAMBDA sourcePackets :
    Let({sourcePackets[i].destPort : i \in 1..Len(sourcePackets)}, LAMBDA uniquePorts :
    Let(MapGet(conns, ConnectionKey(packet)), LAMBDA connectionCount :
        Opt(Cardinality(uniquePorts) > 20,
            Factor("BEHAVIOR", "Port scanning behavior detected",
                   RatInt(85), 30, <<Cardinality(uniquePorts)>>))
        \o Opt(connectionCount = 1,
               Factor("BEHAVIOR", "New connection established",
                      RatInt(10), 5, <<>>)))))

(* Variant of analyzeBehavior: 20 ports are a port scan *)
analyzeBehaviorFrom20(packet, hist, conns, now) ==
    Let(Filter(hist, LAMBDA p : p.sourceIP = packet.sourceIP
                                /\ now - p.timestamp < 60000), LAMBDA sourcePackets :
    Let({sourcePackets[i].destPort : i \in 1..Len(sourcePackets)}, LAMBDA uniquePorts :
    Let(MapGet(conns, ConnectionKey(packet)), LAMBDA connectionCount :
        Opt(Cardinality(uniquePorts) >= 20,
            Factor("BEHAVIOR", "Port scanning behavior detected",
                   RatInt(85), 30, <<Cardinality(uniquePorts)>>))
        \o Opt(connectionCount = 1,
               Factor("BEHAVIOR", "New connection established",
                      RatInt(20), 5, <<>>)))))

(* Variant of analyzeBehavior: every connection counted is reported as new *)
analyzeBehaviorAlwaysNew(packet, hist, conns, now) ==
    Let(Filter(hist, LAMBDA p : p.sourceIP = packet.sourceIP
                                /\ now - p.timestamp < 60000), LAMBDA sourcePackets :
    Let({sourcePackets[i].destPort : i \in 1..Len(sourcePackets)}, LAMBDA uniquePorts :
    Let(MapGet(conns, ConnectionKey(packet)), LAMBDA connectionCount :
        Opt(Cardinality(uniquePorts) > 20,
            Factor("BEHAVIOR", "Port scanning behavior detected",
                   RatInt(85), 30, <<Cardinality(uniquePorts)>>))
        \o Opt(connectionCount >= 1,
               Factor("BEHAVIOR", "New connection established",
                      RatInt(20), 5, <<>>)))))

(* Variant of analyzeBehavior: a first connection is not reported *)
analyzeBehaviorScanOnly(packet, hist, conns, now) ==
    Let(Filter(hist, LAMBDA p : p.sourceIP = packet.sourceIP
                                /\ now - p.timestamp < 60000), LAMBDA sourcePackets :
    Let({sourcePackets[i].destPort : i \in 1..Len(sourcePackets)}, LAMBDA uniquePorts :
        Opt(Cardinality(uniquePorts) > 20,
            Factor("BEHAVIOR", "Port scanning behavior detected",
                   RatInt(85), 30, <<Cardinality(uniquePorts)>>))))

analyzeBehavior(packet, hist, conns, now) ==
    Let(Filter(hist, LAMBDA p : p.sourceIP = packet.sourceIP
                                /\ now - p.timestamp < 60000), LAMBDA sourcePackets :
    Let({sourcePackets[i].destPort : i \in 1..Len(sourcePackets)}, LAMBDA uniquePorts :
    Let(MapGet(conns, ConnectionKey(packet)), LAMBDA connectionCount :
        Opt(Cardinality(uniquePorts) > 20,
            Factor("BEHAVIOR", "Port scanning behavior detected",
                   RatInt(85), 30, <<Cardinality(uniquePorts)>>))
        \o Opt(connectionCount = 1,
               Factor("BEHAVIOR", "New connection established",
                      RatInt(20), 5, <<>>)))))

(* Variant of matchesSignature: size patterns match nothing *)
matchesSignaturePortOnly(packet, pattern) ==
    pattern.type = "port"
    /\ (packet.destPort = pattern.value \/ packet.sourcePort = pattern.value)

(* Variant of matchesSignature: a port pattern is compared with the source port only *)
matchesSignatureSourceOnly(packet, pattern) ==
    CASE pattern.type = "size" -> packet.size = pattern.value
      [] pattern.type = "port" -> packet.sourcePort = pattern.value
      [] OTHER -> FALSE

(* packet.size.toString() === value and packet.destPort.toString() === value ||
   packet.sourcePort.toString() === value: the decimal numeral of an integer equals
   the numeral of the pattern exactly when the integers are equal *)
matchesSignature(packet, pattern) ==
    CASE pattern.type = "size" -> packet.size = pattern.value
      [] pattern.type = "port" ->
            packet.destPort = pattern.value \/ packet.sourcePort = pattern.value
      [] OTHER -> FALSE

(* 'size:1337', 'port:4444', 'port:31337', as pattern.split(':') reads them *)
malwareSignatures ==
    <<[pattern |-> [type |-> "size", value |-> 1337],
       description |-> "Known malware packet size"],
      [pattern |-> [type |-> "port", value |-> 4444],
       description |-> "Common backdoor port"],
      [pattern |-> [type |-> "port", value |-> 31337],
       description |-> "Elite hacker port"]>>

RECURSIVE SignatureFactors(_, _)
SignatureFactors(packet, i) ==
    IF i > Len(malwareSignatures) THEN <<>>
    ELSE Opt(matchesSignature(packet, malwareSignatures[i].pattern),
             Factor("SIGNATURE", malwareSignatures[i].description,
                    RatInt(95), 40, <<malwareSignatures[i].pattern.value>>))
         \o SignatureFactors(packet, i + 1)

(* Variant of analyzeSignatures: one of the flags SYN and FIN is enough *)
analyzeSignaturesEitherFlag(packet) ==
    SignatureFactors(packet, 1)
    \o Opt(Includes(packet.flags, "SYN") \/ Includes(packet.flags, "FIN"),
           Factor("SIGNATURE", "Invalid TCP flag combination", RatInt(90), 35, <<>>))

analyzeSignatures(packet) ==
    SignatureFactors(packet, 1)
    \o Opt(Includes(packet.flags, "SYN") /\ Includes(packet.flags, "FIN"),
           Factor("SIGNATURE", "Invalid TCP flag combination", RatInt(90), 35, <<>>))

(* The eight analyzers in the order analyzePacket calls them, on the engine's state
   after the packet has been added to the history and the counters *)
AnalyzerFactors(packet, base, hist, conns, ports, now, offset) ==
    analyzePacketSize(packet, base)
    \o analyzeFrequency(packet, base, hist, now)
    \o analyzeProtocol(packet, base)
    \o analyzePorts(packet, base, ports)
    \o analyzeTiming(packet, hist, offset)
    \o analyzeGeolocation(packet, base)
    \o analyzeBehavior(packet, hist, conns, now)
    \o analyzeSignatures(packet)

----------------------------------------------------------------------------
(* Score, verdict, explanation *)

RECURSIVE WeightedScore(_, _)
(* sum of score * weight over factors[i..], as a rational *)
WeightedScore(factors, i) ==
    IF i > Len(factors) THEN RatInt(0)
    ELSE Let(WeightedScore(factors, i + 1), LAMBDA rest :
             Rat(factors[i].score.n * factors[i].weight * rest.d
                    + rest.n * factors[i].score.d,
                 factors[i].score.d * rest.d))

RECURSIVE TotalWeight(_, _)
TotalWeight(factors, i) ==
    IF i > Len(factors) THEN 0 ELSE factors[i].weight + TotalWeight(factors, i + 1)

RECURSIVE DWeightedScore(_, _, _)
(* factors.reduce((sum, factor) => sum + factor.score * factor.weight, 0) in doubles,
   from factors[i] on with the sum so far *)
DWeightedScore(factors, i, sum) ==
    IF i > Len(factors) THEN sum
    ELSE DWeightedScore(factors, i + 1,
             DAdd(sum, DMul(DScore(factors[i].score), WeightDouble(factors[i].weight))))

RECURSIVE DTotalWeight(_, _, _)
(* factors.reduce((sum, factor) => sum + factor.weight, 0) in doubles *)
DTotalWeight(factors, i, sum) ==
    IF i > Len(factors) THEN sum
    ELSE DTotalWeight(factors, i + 1, DAdd(sum, WeightDouble(factors[i].weight)))

(* n / d lies halfway between two integers *)
EndsInHalf(n, d) == (2 * n) % d = 0 /\ ((2 * n) \div d) % 2 = 1

(* Variant of calculateAnomalyScore: the weighted sum, not divided by the total weight
   and not capped *)
calculateAnomalyScoreSum(factors) ==
    IF Len(factors) = 0 THEN 0
    ELSE Let(WeightedScore(factors, 1), LAMBDA weightedScore :
             MathRound(weightedScore.n, weightedScore.d * 100))

(* Math.min(100, Math.round(weightedScore / totalWeight)); the weights being in
   hundredths in both sums, the quotient is the one of the source.  A quotient that
   does not end in .5 is rounded as the double next to it is; one that ends in .5 is
   rounded as the double the two reductions and the division produce. *)
calculateAnomalyScore(factors) ==
    IF Len(factors) = 0 THEN 0
    ELSE Let(WeightedScore(factors, 1), LAMBDA weightedScore :
         Let(TotalWeight(factors, 1), LAMBDA totalWeight :
             IF totalWeight > 0
             THEN IF EndsInHalf(weightedScore.n, weightedScore.d * totalWeight)
                  THEN Min(100, DMathRound(DDiv(DWeightedScore(factors, 1, DZero),
                                                DTotalWeight(factors, 1, DZero))))
                  ELSE Min(100, MathRound(weightedScore.n, weightedScore.d * totalWeight))
             ELSE 0))

(* Variant of determineVerdict: strict comparisons *)
determineVerdictStrict(score) ==
    IF score > 80 THEN "MALICIOUS"
    ELSE IF score > 60 THEN "ANOMALOUS"
    ELSE IF score > 30 THEN "SUSPICIOUS"
    ELSE "NORMAL"

determineVerdict(score) ==
    IF score >= 80 THEN "MALICIOUS"
    ELSE IF score >= 60 THEN "ANOMALOUS"
    ELSE IF score >= 30 THEN "SUSPICIOUS"
    ELSE "NORMAL"

(* (b.score * b.weight) - (a.score * a.weight) < 0: a goes before b *)
Contribution(f) == [n |-> f.score.n * f.weight, d |-> f.score.d]

(* a.score * a.weight < b.score * b.weight, as doubles where the products of the
   rationals are equal *)
ContributesLess(a, b) ==
    \/ RatLess(Contribution(a), Contribution(b))
    \/ /\ Contribution(a).n * Contribution(b).d = Contribution(b).n * Contribution(a).d
       /\ <<a.score, a.weight>> # <<b.score, b.weight>>
       /\ DLess(DMul(DScore(a.score), WeightDouble(a.weight)),
                DMul(DScore(b.score), WeightDouble(b.weight)))

RECURSIVE InsertByContribution(_, _)
(* f put into the sorted sequence s after every element that does not contribute less *)
InsertByContribution(s, f) ==
    IF s = <<>> THEN <<f>>
    ELSE IF ContributesLess(s[1], f) THEN <<f>> \o s
    ELSE <<s[1]>> \o InsertByContribution(Tail(s), f)

RECURSIVE SortByContribution(_, _)
(* Array.prototype.sort with the comparator of generateExplanation: a stable sort
   into non-increasing score * weight; sorts factors[1..k] *)
SortByContribution(factors, k) ==
    IF k = 0 THEN <<>>
    ELSE InsertByContribution(SortByContribution(factors, k - 1), factors[k])

(* generateExplanation sorts the array it is given in place and describes the first
   three: it yields the array as it leaves it and the explanation *)
generateExplanation(factors, score, verdict) ==
    IF Len(factors) = 0
    THEN [factors |-> factors,
          explanation |-> [text |-> "Packet appears normal with no anomalous characteristics detected.",
                           verdict |-> "", score |-> 0, concerns |-> <<>>]]
    ELSE Let(SortByContribution(factors, Len(factors)), LAMBDA sorted :
         Let(Take(sorted, 3), LAMBDA topFactors :
             [factors |-> sorted,
              explanation |-> [text |-> "packet (score: /100). Primary concerns: ",
                               verdict |-> verdict, score |-> score,
                               concerns |-> [i \in 1..Len(topFactors) |->
                                                topFactors[i].description]]]))

----------------------------------------------------------------------------
(* analyzePacket *)

(* The reference a result holds in its field baseline: the object this.baseline, which
   the constructor creates and no method replaces *)
ThisBaseline == "this.baseline"

(* The fields of the object a baseline reference points to, as they are now *)
Deref(ref) == IF ref = ThisBaseline THEN baseline ELSE initializeBaseline

(* The engine's fields as one value *)
Engine ==
    [baseline |-> baseline,
     packetHistory |-> packetHistory,
     connectionPatterns |-> connectionPatterns,
     protocolStats |-> protocolStats,
     portStats |-> portStats,
     portOrder |-> portOrder]

(* Variant of updateStatistics: a connection is counted once, when it is first seen *)
updateStatisticsFirstSeen(packet, engine) ==
    [engine EXCEPT
        !.connectionPatterns = IF ConnectionKey(packet) \in DOMAIN @
                               THEN @ ELSE MapIncrement(@, ConnectionKey(packet)),
        !.protocolStats = MapIncrement(@, packet.protocol),
        !.portStats = MapIncrement(@, packet.destPort),
        !.portOrder = IF packet.destPort \in DOMAIN engine.portStats
                      THEN @ ELSE Append(@, packet.destPort)]

(* Variant of updateStatistics: the port counter is keyed by the source port *)
updateStatisticsSourcePort(packet, engine) ==
    [engine EXCEPT
        !.connectionPatterns = MapIncrement(@, ConnectionKey(packet)),
        !.protocolStats = MapIncrement(@, packet.protocol),
        !.portStats = MapIncrement(@, packet.sourcePort),
        !.portOrder = IF packet.sourcePort \in DOMAIN engine.portStats
                      THEN @ ELSE Append(@, packet.sourcePort)]

updateStatistics(packet, engine) ==
    [engine EXCEPT
        !.connectionPatterns = MapIncrement(@, ConnectionKey(packet)),
        !.protocolStats = MapIncrement(@, packet.protocol),
        !.portStats = MapIncrement(@, packet.destPort),
        !.portOrder = IF packet.destPort \in DOMAIN engine.portStats
                      THEN @ ELSE Append(@, packet.destPort)]

(* Variant of PushHistory: the history is not cut *)
PushHistoryUncut(hist, packet) == <<packet>> \o hist

(* this.packetHistory.unshift(packet); this.packetHistory = this.packetHistory.slice(0, 1000) *)
PushHistory(hist, packet) == Take(<<packet>> \o hist, HistoryCap)

(* The first two steps of analyzePacket: the history and the counters take the packet *)
RecordPacket(engine, packet) ==
    updateStatistics(packet, [engine EXCEPT !.packetHistory = PushHistory(@, packet)])

(* analyzePacket(packet) called at wall-clock time now on an engine with the fields
   engine, on a host with the given offset from UTC: the engine's fields afterwards,
   the factors as the analyzers pushed them, and the result returned *)
analyzePacketOn(engine, packet, now, offset) ==
    Let(RecordPacket(engine, packet), LAMBDA e :
    Let(AnalyzerFactors(packet, e.baseline, e.packetHistory, e.connectionPatterns,
                        e.portStats, now, offset), LAMBDA factors :
    Let(calculateAnomalyScore(factors), LAMBDA score :
    Let(determineVerdict(score), LAMBDA verdict :
    Let(generateExplanation(factors, score, verdict), LAMBDA explained :
        [engine |-> e,
         pushed |-> factors,
         result |-> [score |-> score,
                     factors |-> explained.factors,
                     baseline |-> ThisBaseline,
                     verdict |-> verdict,
                     explanation |-> explained.explanation]])))))

analyzePacket(packet, now) == analyzePacketOn(Engine, packet, now, tz)

AnalyzePacket(packet, now) ==
    /\ calls < MaxCalls
    /\ \E a \in {analyzePacket(packet, now)} :
           /\ packetHistory' = a.engine.packetHistory
           /\ connectionPatterns' = a.engine.connectionPatterns
           /\ protocolStats' = a.engine.protocolStats
           /\ portStats' = a.engine.portStats
           /\ portOrder' = a.engine.portOrder
           /\ lastResult' = <<a.result>>
           /\ emitted' = a.pushed
    /\ analysed' = Append(analysed, packet)
    /\ baselineUsed' = baseline
    /\ lastCall' = [op |-> "analyzePacket", packet |-> <<packet>>, sample |-> <<>>,
                    now |-> <<now>>, after |-> ""]
    /\ calls' = calls + 1
    /\ UNCHANGED <<baseline, tz, system, returned, monitor, security>>

----------------------------------------------------------------------------
(* updateBaseline *)

RECURSIVE SumSizes(_, _, _)
(* sizes.reduce((sum, size) => sum + size, 0) over packets[lo..hi], by halves *)
SumSizes(packets, lo, hi) ==
    IF lo > hi THEN 0
    ELSE IF lo = hi THEN packets[lo].size
    ELSE SumSizes(packets, lo, (lo + hi) \div 2)
         + SumSizes(packets, (lo + hi) \div 2 + 1, hi)

RECURSIVE Ascending(_)
(* the keys of an object whose keys are array indices, as Object.entries lists them *)
Ascending(S) ==
    IF S = {} THEN <<>>
    ELSE Let(CHOOSE x \in S : \A y \in S : x <= y, LAMBDA m :
             <<m>> \o Ascending(S \ {m}))

(* [...new Set(s)]: the distinct elements of s in order of first occurrence *)
Distinct(s) ==
    Let(Ascending({i \in 1..Len(s) : \A j \in 1..(i - 1) : s[j] # s[i]}), LAMBDA first :
        [k \in 1..Len(first) |-> s[first[k]]])

(* ports.reduce((acc, port) => { acc[port] = (acc[port] || 0) + 1; return acc }, {}) *)
PortCounts(packets) ==
    [port \in {packets[i].destPort : i \in 1..Len(packets)} |->
        Cardinality({i \in 1..Len(packets) : packets[i].destPort = port})]

RECURSIVE InsertByCount(_, _, _)
InsertByCount(s, port, portCounts) ==
    IF s = <<>> THEN <<port>>
    ELSE IF portCounts[s[1]] < portCounts[port] THEN <<port>> \o s
    ELSE <<s[1]>> \o InsertByCount(Tail(s), port, portCounts)

RECURSIVE SortByCount(_, _, _)
(* .sort(([, a], [, b]) => b - a): a stable sort of entries[1..k] into non-increasing count *)
SortByCount(entries, k, portCounts) ==
    IF k = 0 THEN <<>>
    ELSE InsertByCount(SortByCount(entries, k - 1, portCounts), entries[k], portCounts)

(* Variant of TopPorts: the entries are not sorted *)
TopPortsUnsorted(portCounts) == Take(Ascending(DOMAIN portCounts), MaxCommonPorts)

(* Object.entries(portCounts).sort(..).slice(0, 20).map(([port]) => parseInt(port)) *)
TopPorts(portCounts) ==
    Let(Ascending(DOMAIN portCounts), LAMBDA entries :
        Take(SortByCount(entries, Len(entries), portCounts), MaxCommonPorts))

(* Variant of updateBaseline: the frequency of the baseline follows the sample *)
updateBaselineFrequency(base, packets) ==
    IF Len(packets) < MinBaselineSamples THEN base
    ELSE [base EXCEPT
            !.avgPacketSize = Rat(SumSizes(packets, 1, Len(packets)), Len(packets)),
            !.typicalProtocols =
                Distinct([i \in 1..Len(packets) |-> packets[i].protocol]),
            !.commonPorts = Let(PortCounts(packets), LAMBDA portCounts : TopPorts(portCounts)),
            !.normalFrequency = Len(packets) \div 10 + 1]

(* Variant of updateBaseline: any non-empty sample is accepted *)
updateBaselineAnySample(base, packets) ==
    IF Len(packets) < 1 THEN base
    ELSE [base EXCEPT
            !.avgPacketSize = Rat(SumSizes(packets, 1, Len(packets)), Len(packets)),
            !.typicalProtocols =
                Distinct([i \in 1..Len(packets) |-> packets[i].protocol]),
            !.commonPorts = Let(PortCounts(packets), LAMBDA portCounts : TopPorts(portCounts))]

(* the fields of this.baseline after updateBaseline(packets) on an engine whose
   baseline has the fields base *)
updateBaseline(base, packets) ==
    IF Len(packets) < MinBaselineSamples THEN base
    ELSE [base EXCEPT
            !.avgPacketSize = Rat(SumSizes(packets, 1, Len(packets)), Len(packets)),
            !.typicalProtocols =
                Distinct([i \in 1..Len(packets) |-> packets[i].protocol]),
            !.commonPorts = Let(PortCounts(packets), LAMBDA portCounts : TopPorts(portCounts))]

(* Variant of getBaseline: the copy counts the calls in normalFrequency *)
getBaselineCounting == [baseline EXCEPT !.normalFrequency = calls]

(* { ...this.baseline }: a new object with the fields of this.baseline *)
getBaseline == baseline

(* [...this.portStats.entries()].sort(([, a], [, b]) => b - a).slice(0, 10): the
   entries in insertion order, sorted stably into non-increasing count *)
TopPortEntries ==
    Take(SortByCount(portOrder, Len(portOrder), portStats), MaxTopPorts)

getStatistics ==
    [totalPackets |-> Len(packetHistory),
     uniqueConnections |-> Cardinality(DOMAIN connectionPatterns),
     protocolDistribution |-> protocolStats,
     topPorts |-> Let(TopPortEntries, LAMBDA top :
                      [port \in Range(top) |-> portStats[port]])]

----------------------------------------------------------------------------
(* RealTimeMonitor (src/src/utils/realTimeMonitor.ts): the network capture.
   browser says what the constructor finds: "connection" when navigator.connection
   is there and takes a listener, "none" when navigator has no connection, "throws"
   when registering the listener throws.  observing says that startNetworkCapture
   has registered its PerformanceObserver, simulating that the interval of
   startSimulatedNetworkMonitoring is set.  unreported counts the resource-timing
   entries the browser recorded while isMonitoring was set and for which no 'packet'
   notification was sent; sent holds the notifications of the last step.  Ids and the
   random confidence of a threat alert are left out. *)

NewMonitor(browser) ==
    [browser |-> browser, isMonitoring |-> FALSE, observing |-> FALSE,
     simulating |-> FALSE, entries |-> 0, unreported |-> 0, sent |-> <<>>]

startNetworkCapture(mon) ==
    IF ~mon.isMonitoring THEN mon ELSE [mon EXCEPT !.observing = TRUE]

startSimulatedNetworkMonitoring(mon) == [mon EXCEPT !.simulating = TRUE]

setupNetworkMonitoring(mon) ==
    CASE mon.browser = "connection" -> startNetworkCapture(mon)
      [] mon.browser = "throws" -> startSimulatedNetworkMonitoring(mon)
      [] OTHER -> mon

(* new RealTimeMonitor(): the field initializers, then initializeMonitoring, whose
   first step setupNetworkMonitoring runs before the constructor returns *)
RealTimeMonitorNew(browser) == setupNetworkMonitoring(NewMonitor(browser))

startMonitoring(mon) == [mon EXCEPT !.isMonitoring = TRUE]

stopMonitoring(mon) == [mon EXCEPT !.isMonitoring = FALSE]

Event(type, data) == [type |-> type, data |-> data]

(* /^10\.0\.0\./, /^192\.168\.100\./, /^172\.16\.0\./ *)
monitorIsSuspiciousIP(ip) ==
    \/ ip[1] = 10 /\ ip[2] = 0 /\ ip[3] = 0
    \/ ip[1] = 192 /\ ip[2] = 168 /\ ip[3] = 100
    \/ ip[1] = 172 /\ ip[2] = 16 /\ ip[3] = 0

createThreatAlert(type, severity, packet, description, now) ==
    [timestamp |-> now, severity |-> severity, type |-> type,
     sourceIP |-> packet.sourceIP, destIP |-> packet.destIP,
     description |-> [text |-> description], confidence |-> <<>>,
     blocked |-> severity \in {"HIGH", "CRITICAL"}, resolved |-> FALSE]

(* the threats analyzePacketForThreats notifies of, in order *)
analyzePacketForThreats(packet, now) ==
    Opt(packet.size > 10000000,
        createThreatAlert("DATA_EXFILTRATION", "HIGH", packet,
                          "Large data transfer detected", now))
    \o Opt(Includes(packet.flags, "SLOW_CONNECT"),
           createThreatAlert("ANOMALY", "MEDIUM", packet,
                             "Slow connection detected - possible network issue", now))
    \o Opt(monitorIsSuspiciousIP(packet.sourceIP),
           createThreatAlert("INTRUSION", "HIGH", packet,
                             "Connection from suspicious IP address", now))

(* What the monitor notifies its listeners of for a packet: the packet, then the
   threats found in it *)
PacketNotifications(packet, now) ==
    Let(analyzePacketForThreats(packet, now), LAMBDA threats :
        <<Event("packet", packet)>>
        \o [i \in 1..Len(threats) |-> Event("threat", threats[i])])

analyzeResourceTiming(entry) ==
    Opt(entry.connect > 1000, "SLOW_CONNECT")
    \o Opt(entry.response > 5000, "SLOW_RESPONSE")
    \o Opt(entry.transferSize = 0, "CACHED")
    \o Opt(entry.transferSize > 1000000, "LARGE_TRANSFER")

(* The packet processNetworkEntry makes of a resource-timing entry on a page at
   location; entry.host is what extractIPFromURL makes of the entry's URL *)
processNetworkEntry(entry, location, now) ==
    [timestamp |-> now, sourceIP |-> entry.host, destIP |-> location.hostname,
     sourcePort |-> entry.port,
     destPort |-> IF location.port = <<>> THEN 80 ELSE location.port[1],
     protocol |-> IF entry.https THEN "HTTPS" ELSE "HTTP",
     size |-> entry.transferSize, flags |-> analyzeResourceTiming(entry)]

----------------------------------------------------------------------------
(* SecurityEngine (src/unnamed/part_002): the packets and alerts it keeps, and in
   sent what it notified its own listeners of in the last step, each notification
   with the type of the event it was handling *)

SecurityPacketCap == 1000

AlertCap == 500

MetricsCap == 100

LogCap == 1000

PacketsShown == 50

(* the 'metrics' case calls updateBaseline when the number of stored packets is a
   positive multiple of BaselineEvery, on the BaselineSample most recent of them *)
BaselineEvery == 100

BaselineSample == 500

(* cleanup keeps what is younger than a day *)
RetentionMs == 24 * MsPerHour

(* Bound of the model: the nested calls of SecurityEngine.notifyListeners the call
   stack has room for; one call more throws a RangeError *)
MaxStack == 3

(* Bound of the model: the callbacks subscribed to SecurityEngine *)
MaxListeners == 2

(* listeners holds, for each subscribed callback, whether it returns or throws.
   sent and received are what notifyListeners was called with, and which listener
   was invoked with what at which depth of nested calls, in the last step.
   processed counts the 'packet' events handled, and updatedAt holds its value at
   each call of updateBaseline (history fields). *)
NewSecurity ==
    [packets |-> <<>>, alerts |-> <<>>, metrics |-> <<>>, logs |-> <<>>,
     listeners |-> <<>>, sent |-> <<>>, received |-> <<>>,
     processed |-> 0, updatedAt |-> <<>>]

Notification(type, on, data) == [type |-> type, on |-> on, data |-> data]

(* what follows a call inside a try block: nothing, if the call threw *)
Then(st, F(_)) == IF st.thrown THEN st ELSE F(st)

RECURSIVE securityNotifyListeners(_, _, _)
RECURSIVE deliver(_, _, _, _)

(* this.errorHandler, entered at the given depth of nested notifyListeners calls *)
errorHandler(st, on, depth) ==
    securityNotifyListeners(st, Notification("error", on, <<>>), depth)

(* the forEach of SecurityEngine.notifyListeners from listener i on: a listener
   that throws is caught, and the catch block calls errorHandler; what errorHandler
   throws leaves the forEach *)
deliver(st, data, depth, i) ==
    IF i > Len(st.security.listeners) THEN st
    ELSE Let([st EXCEPT !.security.received =
                  Append(@, [listener |-> i, type |-> data.type, depth |-> depth])],
             LAMBDA called :
                IF st.security.listeners[i] = "throws"
                THEN Let(errorHandler(called, data.on, depth + 1), LAMBDA handled :
                         IF handled.thrown THEN handled
                         ELSE deliver(handled, data, depth, i + 1))
                ELSE deliver(called, data, depth, i + 1))

(* SecurityEngine.notifyListeners(data) *)
securityNotifyListeners(st, data, depth) ==
    IF depth > MaxStack THEN [st EXCEPT !.thrown = TRUE]
    ELSE deliver([st EXCEPT !.security.sent = Append(@, data)], data, depth, 1)

severityMap(verdict) ==
    CASE verdict = "MALICIOUS" -> "CRITICAL"
      [] verdict = "ANOMALOUS" -> "HIGH"
      [] verdict = "SUSPICIOUS" -> "MEDIUM"
      [] verdict = "NORMAL" -> "LOW"
      [] OTHER -> "MEDIUM"

createThreatFromAnomalyMalicious(packet, analysis) ==
    [timestamp |-> packet.timestamp, severity |-> severityMap(analysis.verdict),
     type |-> "ANOMALY", sourceIP |-> packet.sourceIP, destIP |-> packet.destIP,
     description |-> analysis.explanation, confidence |-> <<analysis.score>>,
     blocked |-> analysis.verdict = "MALICIOUS", resolved |-> FALSE]

createThreatFromAnomaly(packet, analysis) ==
    [timestamp |-> packet.timestamp, severity |-> severityMap(analysis.verdict),
     type |-> "ANOMALY", sourceIP |-> packet.sourceIP, destIP |-> packet.destIP,
     description |-> analysis.explanation, confidence |-> <<analysis.score>>,
     blocked |-> analysis.score > 70, resolved |-> FALSE]

(* case 'packet' of handleRealTimeData, on the SecurityEngine st.security and the
   detector with the fields st.engine; st.analyses collects what analyzePacket
   returned *)
handlePacketEvent(st, packet, now, offset) ==
    Let(analyzePacketOn(st.engine, packet, now, offset), LAMBDA a :
    Let([packet |-> packet,
         anomalyScore |-> a.result.score,
         anomalyReasons |-> [i \in 1..Len(a.result.factors) |->
                                a.result.factors[i].description],
         isAnomalous |-> a.result.verdict # "NORMAL"], LAMBDA annotated :
    Let(Take(<<annotated>> \o st.security.packets, SecurityPacketCap), LAMBDA packets :
    Let(createThreatFromAnomaly(packet, a.result), LAMBDA threat :
    Then(securityNotifyListeners(
            [st EXCEPT !.engine = a.engine,
                       !.analyses = Append(@, a),
                       !.security.packets = packets,
                       !.security.processed = @ + 1],
            Notification("packets", "packet", Take(packets, PacketsShown)), 1),
         LAMBDA notified :
            IF a.result.verdict \in {"ANOMALOUS", "MALICIOUS"}
            THEN securityNotifyListeners(
                    [notified EXCEPT
                        !.security.alerts = Take(<<threat>> \o @, AlertCap)],
                    Notification("threat", "packet", <<threat>>), 1)
            ELSE notified)))))

(* case 'threat' of handleRealTimeData *)
handleThreatEvent(st, threat) ==
    securityNotifyListeners(
        [st EXCEPT !.security.alerts = Take(<<threat>> \o @, AlertCap)],
        Notification("threat", "threat", <<threat>>), 1)

(* the packets as the detector reads them *)
PacketsOf(annotated) == [i \in 1..Len(annotated) |-> annotated[i].packet]

(* case 'metrics' of handleRealTimeData *)
handleMetricsEvent(st, metrics) ==
    Then(securityNotifyListeners(
            [st EXCEPT !.security.metrics = Take(<<metrics>> \o @, MetricsCap)],
            Notification("metrics", "metrics", <<metrics>>), 1),
         LAMBDA notified :
            IF /\ Len(notified.security.packets) > 0
               /\ Len(notified.security.packets) % BaselineEvery = 0
            THEN [notified EXCEPT
                     !.engine.baseline =
                         updateBaseline(@, PacketsOf(Take(notified.security.packets,
                                                          BaselineSample))),
                     !.security.updatedAt = Append(@, notified.security.processed)]
            ELSE notified)

(* Variant of the 'log' case: the list of logs is not cut *)
handleLogEventUncut(st, log) ==
    securityNotifyListeners(
        [st EXCEPT !.security.logs = <<log>> \o @],
        Notification("log", "log", <<log>>), 1)

(* case 'log' of handleRealTimeData *)
handleLogEvent(st, log) ==
    securityNotifyListeners(
        [st EXCEPT !.security.logs = Take(<<log>> \o @, LogCap)],
        Notification("log", "log", <<log>>), 1)

(* handleRealTimeData: the switch in a try block, whose catch block calls
   errorHandler *)
handleRealTimeData(st, data, now, offset) ==
    Let(CASE data.type = "packet" -> handlePacketEvent(st, data.data, now, offset)
          [] data.type = "threat" -> handleThreatEvent(st, data.data)
          [] data.type = "metrics" -> handleMetricsEvent(st, data.data)
          [] data.type = "log" -> handleLogEvent(st, data.data)
          [] data.type \in {"network_change", "storage", "error"} ->
                securityNotifyListeners(
                    st, Notification(data.type, data.type, <<data.data>>), 1)
          [] OTHER -> st,
        LAMBDA tried :
            IF tried.thrown
            THEN errorHandler([tried EXCEPT !.thrown = FALSE], data.type, 1)
            ELSE tried)

(* cleanup(), called at now *)
cleanup(sec, now) ==
    [sec EXCEPT
        !.packets = Filter(@, LAMBDA p : p.packet.timestamp > now - RetentionMs),
        !.alerts = Filter(@, LAMBDA a : a.timestamp > now - RetentionMs),
        !.metrics = Filter(@, LAMBDA m : m.timestamp > now - RetentionMs),
        !.logs = Filter(@, LAMBDA l : l.timestamp > now - RetentionMs)]

(* subscribe(callback) *)
subscribe(sec, callback) == [sec EXCEPT !.listeners = Append(@, callback)]

RECURSIVE notifyListeners(_, _, _, _, _)
(* RealTimeMonitor.notifyListeners for events[i..], one after the other: its listener
   is the one SecurityEngine subscribed in its constructor, and what that listener
   throws is caught and logged *)
notifyListeners(st, events, i, now, offset) ==
    IF i > Len(events) THEN st
    ELSE notifyListeners([handleRealTimeData(st, events[i], now, offset)
                             EXCEPT !.thrown = FALSE],
                         events, i + 1, now, offset)

----------------------------------------------------------------------------
(* RealTimeSystemMonitor (src/src/utils/realTimeSystemMonitor.ts): intervalId is
   <<>> for null and <<"interval">> for the id of the metrics interval (the ids
   setInterval returns are positive); storageTimers counts the storage intervals
   that are running; storage is permissions.storage. *)

NewSystemMonitor == [intervalId |-> <<>>, storageTimers |-> 0, storage |-> FALSE]

setPermissions(sys, storage) == [sys EXCEPT !.storage = storage]

systemStartMonitoring(sys) ==
    IF sys.intervalId # <<>> THEN sys
    ELSE [sys EXCEPT
             !.intervalId = <<"interval">>,
             !.storageTimers = IF sys.storage THEN @ + 1 ELSE @]

systemStopMonitoring(sys) == [sys EXCEPT !.intervalId = <<>>]

----------------------------------------------------------------------------
(* Inputs *)

Noon == 36 * MsPerHour

LateEvening == 47 * MsPerHour

(* Values of Date.now(): a second, and two minutes, after Noon *)
Nows == {Noon + 1000, Noon + 120000}

(* Date.now() at the calls on a newly constructed engine: a second after Noon *)
FreshNows == {Noon + 1000}

(* The host is on UTC or five hours west of it *)
TzOffsets == {0, -5 * MsPerHour}

Server == <<192, 168, 1, 1>>

Workstation == <<192, 168, 1, 10>>

PublicIP == <<45, 33, 32, 156>>

TestNetIP == <<203, 0, 113, 7>>

ScannerIP == <<10, 0, 0, 15>>

BulkIP == <<172, 16, 0, 50>>

Benign ==
    [timestamp |-> Noon, sourceIP |-> Workstation, destIP |-> Server,
     sourcePort |-> 50000, destPort |-> 80, protocol |-> "TCP", size |-> 512,
     flags |-> <<"ACK">>]

(* The event of the end-to-end scenario: 11000 bytes over TCP to port 4444, no flags *)
Exfiltration(timestamp, sourceIP, sourcePort) ==
    [Benign EXCEPT !.timestamp = timestamp, !.sourceIP = sourceIP,
                   !.sourcePort = sourcePort, !.destPort = 4444,
                   !.size = 11000, !.flags = <<>>]

Packets ==
    {Benign,
     [Benign EXCEPT !.size = 1536, !.sourceIP = ScannerIP, !.flags = <<"SYN">>],
     [Benign EXCEPT !.sourcePort = 60001, !.flags = <<"FIN">>],
     [Benign EXCEPT !.size = 1537],
     [Benign EXCEPT !.size = 1337, !.sourceIP = Server],
     [Benign EXCEPT !.size = 10, !.protocol = "UDP", !.flags = <<"FIN", "SYN", "FIN">>],
     [Benign EXCEPT !.protocol = "ICMP", !.size = 1500, !.destPort = 3389,
                    !.flags = <<"SYN", "ACK", "FIN">>, !.timestamp = LateEvening],
     Exfiltration(Noon, PublicIP, 50000),
     Exfiltration(LateEvening, PublicIP, 50000),
     Exfiltration(Noon, PublicIP, 60001),
     Exfiltration(Noon, TestNetIP, 31337)}

(* Samples given to updateBaseline: packet i of a sample of each kind *)
SamplePacket(kind, i) ==
    CASE kind = "idle" ->
            [Benign EXCEPT !.size = 0]
      [] kind = "web" ->
            [Benign EXCEPT !.size = 300 + 100 * (i % 2),
                           !.destPort = IF i % 3 = 0 THEN 80 ELSE 443,
                           !.protocol = IF i % 3 = 0 THEN "HTTP" ELSE "HTTPS"]
      [] kind = "scan" ->
            [Benign EXCEPT !.size = 40 + (i % 3),
                           !.sourceIP = ScannerIP,
                           !.destPort = 1000 + ((i * i) % 47),
                           !.protocol = IF i % 5 = 0 THEN "ICMP" ELSE "TCP"]

Sample(arg) == [i \in 1..arg.len |-> SamplePacket(arg.kind, i)]

SampleArgs ==
    {[kind |-> "scan", len |-> n] : n \in {MinBaselineSamples - 1, MinBaselineSamples + 1}}
    \cup {[kind |-> k, len |-> MinBaselineSamples] : k \in {"idle", "web"}}

----------------------------------------------------------------------------
(* The engine as a state machine *)

Init ==
    /\ baseline = initializeBaseline
    /\ packetHistory = <<>>
    /\ connectionPatterns = EmptyMap
    /\ protocolStats = EmptyMap
    /\ portStats = EmptyMap
    /\ portOrder = <<>>
    /\ lastResult = <<>>
    /\ monitor = RealTimeMonitorNew("none")
    /\ security = NewSecurity
    /\ system = NewSystemMonitor
    /\ tz \in TzOffsets
    /\ analysed = <<>>
    /\ baselineUsed = initializeBaseline
    /\ emitted = <<>>
    /\ lastCall = [op |-> "constructor", packet |-> <<>>, sample |-> <<>>, now |-> <<>>, after |-> ""]
    /\ returned = <<>>
    /\ calls = 0

UpdateBaseline(arg) ==
    /\ calls < MaxCalls
    /\ \E packets \in {Sample(arg)} : baseline' = updateBaseline(baseline, packets)
    /\ lastCall' = [op |-> "updateBaseline", packet |-> <<>>, sample |-> <<arg>>,
                    now |-> <<>>, after |-> ""]
    /\ calls' = calls + 1
    /\ UNCHANGED <<packetHistory, connectionPatterns, protocolStats, portStats, portOrder,
                   lastResult, tz, system, analysed, baselineUsed, emitted, returned,
                   monitor, security>>

(* getBaseline(): the caller gets a copy of the fields of this.baseline *)
GetBaseline ==
    /\ calls < MaxCalls
    /\ returned' = <<getBaseline>>
    /\ lastCall' = [op |-> "getBaseline", packet |-> <<>>, sample |-> <<>>, now |-> <<>>,
                    after |-> lastCall.op]
    /\ calls' = calls + 1
    /\ UNCHANGED <<engineVars, lastResult, tz, system, analysed, baselineUsed, emitted,
                   monitor, security>>

GetStatistics ==
    /\ calls < MaxCalls
    /\ returned' = <<getStatistics>>
    /\ lastCall' = [op |-> "getStatistics", packet |-> <<>>, sample |-> <<>>, now |-> <<>>, after |-> ""]
    /\ calls' = calls + 1
    /\ UNCHANGED <<engineVars, lastResult, tz, system, analysed, baselineUsed, emitted,
                   monitor, security>>

Next ==
    \/ \E packet \in Packets, now \in FreshNows : AnalyzePacket(packet, now)
    \/ \E arg \in SampleArgs : UpdateBaseline(arg)
    \/ GetBaseline
    \/ GetStatistics

Spec == Init /\ [][Next]_vars

----------------------------------------------------------------------------
(* The engine after it has analysed a trace of traffic.  The histories that fill the
   1000-packet window, and the sources that contact 21 ports, lie hundreds of calls
   from the constructed state; SpecLoaded starts from the state the engine is in
   after analysePacket has been called on every packet of a trace. *)

FreshEngine ==
    [baseline |-> initializeBaseline,
     packetHistory |-> <<>>,
     connectionPatterns |-> EmptyMap,
     protocolStats |-> EmptyMap,
     portStats |-> EmptyMap,
     portOrder |-> <<>>]

RECURSIVE Replay(_, _, _, _)
(* the engine's fields after analyzePacket on trace[lo], ..., trace[hi], by halves *)
Replay(engine, trace, lo, hi) ==
    IF lo > hi THEN engine
    ELSE IF lo = hi THEN RecordPacket(engine, trace[lo])
    ELSE Let(Replay(engine, trace, lo, (lo + hi) \div 2), LAMBDA half :
             Replay(half, trace, (lo + hi) \div 2 + 1, hi))

(* One source contacts 20 ports in 20 ms.  A packet of that source stamped 111 ms
   after the trace began has nine packets of the trace within 100 ms of it. *)
ScanTrace ==
    [i \in 1..20 |->
        [Benign EXCEPT !.sourceIP = ScannerIP, !.timestamp = Noon + i,
                       !.destPort = 2000 + i]]

(* One source fills all but one place of the history within a second; its first
   packet is the only one over UDP and the only one to port 8080 *)
BulkTrace ==
    [i \in 1..(HistoryCap - 1) |->
        [Benign EXCEPT !.sourceIP = BulkIP, !.timestamp = Noon + i,
                       !.destPort = IF i = 1 THEN 8080 ELSE IF i % 2 = 0 THEN 80 ELSE 443,
                       !.protocol = IF i = 1 THEN "UDP" ELSE "TCP"]]

(* One source sends 500 packets in half a second: one more within ten seconds is the
   first at which frequency > normalFrequency * 5 *)
HalfTrace ==
    [i \in 1..(50 * initializeBaseline.normalFrequency) |->
        [Benign EXCEPT !.sourceIP = BulkIP, !.timestamp = Noon + i]]

Traces == {ScanTrace, BulkTrace, HalfTrace}

LoadedPackets ==
    {[Benign EXCEPT !.sourceIP = ScannerIP, !.timestamp = Noon + 21, !.destPort = 2021],
     [Benign EXCEPT !.sourceIP = ScannerIP, !.timestamp = Noon + 111, !.destPort = 2001],
     [Benign EXCEPT !.sourceIP = BulkIP, !.timestamp = Noon + 999]}

InitLoaded ==
    /\ tz \in TzOffsets
    /\ monitor = RealTimeMonitorNew("none")
    /\ security = NewSecurity
    /\ system = NewSystemMonitor
    /\ \E trace \in Traces, now \in Nows :
         \E before \in {Replay(FreshEngine, trace, 1, Len(trace) - 1)} :
         \E a \in {analyzePacketOn(before, trace[Len(trace)], now, tz)} :
            /\ baseline = a.engine.baseline
            /\ packetHistory = a.engine.packetHistory
            /\ connectionPatterns = a.engine.connectionPatterns
            /\ protocolStats = a.engine.protocolStats
            /\ portStats = a.engine.portStats
            /\ portOrder = a.engine.portOrder
            /\ lastResult = <<a.result>>
            /\ emitted = a.pushed
            /\ analysed = trace
            /\ lastCall = [op |-> "analyzePacket", packet |-> <<trace[Len(trace)]>>,
                           sample |-> <<>>, now |-> <<now>>, after |-> ""]
    /\ baselineUsed = initializeBaseline
    /\ returned = <<>>
    /\ calls = 0

NextLoaded ==
    \/ \E packet \in LoadedPackets, now \in Nows : AnalyzePacket(packet, now)
    \/ \E arg \in {[kind |-> "web", len |-> MinBaselineSamples]} : UpdateBaseline(arg)
    \/ GetBaseline
    \/ GetStatistics

SpecLoaded == InitLoaded /\ [][NextLoaded]_vars

----------------------------------------------------------------------------
(* The dashboard: the RealTimeMonitor singleton, the SecurityEngine singleton that
   subscribed to it in its constructor, and the detector SecurityEngine calls *)

(* Bound of the model: the resource-timing entries the browser records *)
MaxEntries == 2

Browsers == {"connection", "none", "throws"}

(* The page is served from Server, on the default port *)
Location == [hostname |-> Server, port |-> <<>>]

(* Resource-timing entries: a large download over https, and a cached resource of the
   page's own host whose connection was slow *)
ResourceEntries ==
    {[host |-> <<140, 82, 114, 4>>, port |-> 443, https |-> TRUE,
      transferSize |-> 11000, connect |-> 20, response |-> 100],
     [host |-> <<127, 0, 0, 1>>, port |-> 80, https |-> FALSE,
      transferSize |-> 0, connect |-> 1500, response |-> 100]}

(* Packets as generateRealisticPacket makes them (ports of its list, 64 to 1563
   bytes, one to three distinct flags, addresses of its ranges); the timestamp is
   Date.now() of the tick *)
SimulatedPackets ==
    {[Benign EXCEPT !.sourcePort = 443],
     [Benign EXCEPT !.sourcePort = 443, !.sourceIP = ScannerIP],
     [Benign EXCEPT !.sourcePort = 53, !.protocol = "ICMP", !.size = 1500,
                    !.sourceIP = <<8, 8, 8, 8>>],
     [Benign EXCEPT !.sourcePort = 22, !.destPort = 22, !.flags = <<"FIN", "SYN">>]}

InitMonitoring ==
    /\ baseline = initializeBaseline
    /\ packetHistory = <<>>
    /\ connectionPatterns = EmptyMap
    /\ protocolStats = EmptyMap
    /\ portStats = EmptyMap
    /\ portOrder = <<>>
    /\ lastResult = <<>>
    /\ \E browser \in Browsers : monitor = RealTimeMonitorNew(browser)
    /\ security = NewSecurity
    /\ system = NewSystemMonitor
    /\ tz \in TzOffsets
    /\ analysed = <<>>
    /\ baselineUsed = initializeBaseline
    /\ emitted = <<>>
    /\ lastCall = [op |-> "constructor", packet |-> <<>>, sample |-> <<>>, now |-> <<>>,
                   after |-> ""]
    /\ returned = <<>>
    /\ calls = 0

StartMonitoring ==
    /\ monitor' = [startMonitoring(monitor) EXCEPT !.sent = <<>>]
    /\ security' = [security EXCEPT !.sent = <<>>]
    /\ lastCall' = [op |-> "startMonitoring", packet |-> <<>>, sample |-> <<>>,
                    now |-> <<>>, after |-> ""]
    /\ UNCHANGED <<engineVars, lastResult, tz, system, analysed, baselineUsed, emitted,
                   returned, calls>>

StopMonitoring ==
    /\ monitor' = [stopMonitoring(monitor) EXCEPT !.sent = <<>>]
    /\ security' = [security EXCEPT !.sent = <<>>]
    /\ lastCall' = [op |-> "stopMonitoring", packet |-> <<>>, sample |-> <<>>,
                    now |-> <<>>, after |-> ""]
    /\ UNCHANGED <<engineVars, lastResult, tz, system, analysed, baselineUsed, emitted,
                   returned, calls>>

(* In the step op the monitor, its other fields being mon, notifies its listeners of
   a packet and of the threats found in it; SecurityEngine handles each notification
   before the next is sent *)
NotifyOfPacket(mon, op, packet, now) ==
    /\ \E events \in {PacketNotifications(packet, now)} :
         /\ monitor' = [mon EXCEPT !.sent = events]
         /\ \E out \in {notifyListeners([engine |-> Engine, analyses |-> <<>>, thrown |-> FALSE,
                                          security |-> [security EXCEPT
                                                           !.sent = <<>>,
                                                           !.received = <<>>]],
                                         events, 1, now, tz)} :
               /\ packetHistory' = out.engine.packetHistory
               /\ connectionPatterns' = out.engine.connectionPatterns
               /\ protocolStats' = out.engine.protocolStats
               /\ portStats' = out.engine.portStats
               /\ portOrder' = out.engine.portOrder
               /\ security' = out.security
               /\ lastResult' = <<out.analyses[1].result>>
               /\ emitted' = out.analyses[1].pushed
    /\ analysed' = Append(analysed, packet)
    /\ baselineUsed' = baseline
    /\ lastCall' = [op |-> op, packet |-> <<packet>>, sample |-> <<>>,
                    now |-> <<now>>, after |-> ""]
    /\ calls' = calls + 1
    /\ UNCHANGED <<baseline, tz, system, returned>>

(* The interval callback of startSimulatedNetworkMonitoring *)
SimulatedTick(template, now) ==
    /\ monitor.simulating
    /\ monitor.isMonitoring
    /\ calls < MaxCalls
    /\ NotifyOfPacket(monitor, "simulatedTick", [template EXCEPT !.timestamp = now], now)

(* The browser records a resource-timing entry: the PerformanceObserver of
   startNetworkCapture, if one was registered, is called with it *)
ResourceEntry(entry, now) ==
    /\ monitor.entries < MaxEntries
    /\ IF monitor.observing
       THEN /\ calls < MaxCalls
            /\ NotifyOfPacket([monitor EXCEPT !.entries = @ + 1], "resourceEntry",
                              processNetworkEntry(entry, Location, now), now)
       ELSE /\ monitor' = [monitor EXCEPT
                              !.entries = @ + 1,
                              !.unreported = @ + (IF monitor.isMonitoring THEN 1 ELSE 0),
                              !.sent = <<>>]
            /\ security' = [security EXCEPT !.sent = <<>>]
            /\ lastCall' = [op |-> "resourceEntry", packet |-> <<>>, sample |-> <<>>,
                            now |-> <<now>>, after |-> ""]
            /\ UNCHANGED <<engineVars, lastResult, tz, system, analysed, baselineUsed, emitted,
                           returned, calls>>

NextMonitoring ==
    \/ StartMonitoring
    \/ StopMonitoring
    \/ \E template \in SimulatedPackets, now \in FreshNows : SimulatedTick(template, now)
    \/ \E entry \in ResourceEntries, now \in FreshNows : ResourceEntry(entry, now)

SpecMonitoring == InitMonitoring /\ [][NextMonitoring]_vars

(* The timers and the browser's events keep arriving *)
SpecMonitoringFair == SpecMonitoring /\ WF_vars(NextMonitoring)

----------------------------------------------------------------------------
(* SecurityEngine with its own subscribers, the RealTimeSystemMonitor whose timers
   send it 'metrics' and 'storage' events, and the events the two monitors send it.
   The caps of its lists lie a thousand events from the constructed state;
   SpecSecurity starts from the constructed state and from the state after the
   events of LoadTrace have been handled, in which every list is full. *)

(* Bound of the model: the storage intervals started *)
MaxTimers == 2

Quiet == [Benign EXCEPT !.sourceIP = <<192, 168, 1, 20>>]

(* Packets the detector finds MALICIOUS (score 80 or more), ANOMALOUS with a score
   above 70, and SUSPICIOUS the first time and ANOMALOUS with a score below 70 the
   second time *)
SecurityPackets ==
    {Exfiltration(Noon, <<45, 33, 32, 156>>, 50001),
     [Benign EXCEPT !.sourcePort = 53, !.protocol = "ICMP", !.size = 1500,
                    !.sourceIP = <<8, 8, 8, 8>>, !.flags = <<"FIN", "SYN">>],
     [Benign EXCEPT !.protocol = "ICMP", !.size = 1500]}

(* As many threats, metrics, logs and packets as SecurityEngine keeps of each, a
   second apart; the first half of each kind is a day older than the second *)
LoadStamp(i, count) ==
    (IF 2 * i <= count THEN 11 * MsPerHour ELSE 35 * MsPerHour) + 1000 * i

LoadTrace ==
    [i \in 1..AlertCap |->
        Event("threat", createThreatAlert("INTRUSION", "HIGH", Quiet,
                                          "Connection from suspicious IP address",
                                          LoadStamp(i, AlertCap)))]
    \o [i \in 1..MetricsCap |->
           Event("metrics", [timestamp |-> LoadStamp(i, MetricsCap)])]
    \o [i \in 1..LogCap |->
           Event("log", [timestamp |-> LoadStamp(i, LogCap)])]
    \o [i \in 1..SecurityPacketCap |->
           Event("packet", [Quiet EXCEPT
                               !.timestamp = LoadStamp(i, SecurityPacketCap)])]

RECURSIVE Handled(_, _, _, _, _)
(* the state after handleRealTimeData on trace[lo], ..., trace[hi], each handled a
   millisecond after its timestamp, by halves; st.analyses keeps the last analysis *)
Handled(st, trace, lo, hi, offset) ==
    IF lo > hi THEN st
    ELSE IF lo = hi
    THEN handleRealTimeData([st EXCEPT !.analyses = <<>>], trace[lo],
                            trace[lo].data.timestamp + 1, offset)
    ELSE Let(Handled(st, trace, lo, (lo + hi) \div 2, offset), LAMBDA half :
             Handled(half, trace, (lo + hi) \div 2 + 1, hi, offset))

SecurityTraces == {<<>>, LoadTrace}

(* The dashboard has granted the storage permission and started scanning *)
InitSecurity ==
    /\ tz = 0
    /\ monitor = RealTimeMonitorNew("none")
    /\ system = systemStartMonitoring(setPermissions(NewSystemMonitor, TRUE))
    /\ \E trace \in SecurityTraces :
         \E st \in {Handled([engine |-> FreshEngine, analyses |-> <<>>,
                             thrown |-> FALSE, security |-> NewSecurity],
                            trace, 1, Len(trace), tz)} :
            /\ baseline = st.engine.baseline
            /\ packetHistory = st.engine.packetHistory
            /\ connectionPatterns = st.engine.connectionPatterns
            /\ protocolStats = st.engine.protocolStats
            /\ portStats = st.engine.portStats
            /\ portOrder = st.engine.portOrder
            /\ security = [st.security EXCEPT !.sent = <<>>, !.received = <<>>]
            /\ lastResult = [i \in 1..Len(st.analyses) |-> st.analyses[i].result]
            /\ emitted = IF st.analyses = <<>> THEN <<>> ELSE st.analyses[1].pushed
            /\ analysed = [i \in 1..Len(st.security.packets) |->
                              st.security.packets[Len(st.security.packets) + 1 - i].packet]
    /\ baselineUsed = initializeBaseline
    /\ lastCall = [op |-> "constructor", packet |-> <<>>, sample |-> <<>>, now |-> <<>>,
                   after |-> ""]
    /\ returned = <<>>
    /\ calls = 0

(* SecurityEngine.subscribe(callback), the callback one that returns or one that
   throws *)
Subscribe(callback) ==
    /\ calls < MaxCalls
    /\ Len(security.listeners) < MaxListeners
    /\ security' = [subscribe(security, callback) EXCEPT !.sent = <<>>, !.received = <<>>]
    /\ lastCall' = [op |-> "subscribe", packet |-> <<>>, sample |-> <<>>, now |-> <<>>,
                    after |-> ""]
    /\ calls' = calls + 1
    /\ UNCHANGED <<engineVars, lastResult, monitor, system, tz, analysed, baselineUsed,
                   emitted, returned>>

(* In the step op SecurityEngine handles the event data a monitor notifies it of *)
Delivered(op, data, now) ==
    /\ \E out \in {handleRealTimeData(
                      [engine |-> Engine, analyses |-> <<>>, thrown |-> FALSE,
                       security |-> [security EXCEPT !.sent = <<>>, !.received = <<>>]],
                      data, now, tz)} :
          /\ baseline' = out.engine.baseline
          /\ packetHistory' = out.engine.packetHistory
          /\ connectionPatterns' = out.engine.connectionPatterns
          /\ protocolStats' = out.engine.protocolStats
          /\ portStats' = out.engine.portStats
          /\ portOrder' = out.engine.portOrder
          /\ security' = out.security
          /\ IF out.analyses = <<>>
             THEN UNCHANGED <<lastResult, emitted, analysed, baselineUsed>>
             ELSE /\ lastResult' = <<out.analyses[1].result>>
                  /\ emitted' = out.analyses[1].pushed
                  /\ analysed' = Append(analysed, data.data)
                  /\ baselineUsed' = baseline
    /\ lastCall' = [op |-> op, packet |-> <<data>>, sample |-> <<>>, now |-> <<now>>,
                    after |-> ""]

HandleEvent(op, data, now) ==
    /\ calls < MaxCalls
    /\ Delivered(op, data, now)
    /\ calls' = calls + 1
    /\ UNCHANGED <<monitor, system, tz, returned>>

(* the events RealTimeMonitor and RealTimeSystemMonitor send when the browser
   reports traffic, a log line or a change of the network *)
MonitorEvents(now) ==
    {Event("packet", [packet EXCEPT !.timestamp = now]) : packet \in SecurityPackets}
    \cup {Event("threat", createThreatAlert("INTRUSION", "HIGH", Quiet,
                                            "Connection from suspicious IP address",
                                            now)),
          Event("log", [timestamp |-> now]),
          Event("network_change", [timestamp |-> now])}

MonitorEvent(data, now) == HandleEvent("event", data, now)

(* the callback of the metrics interval *)
MetricsTick(now) ==
    /\ system.intervalId # <<>>
    /\ HandleEvent("metricsTick", Event("metrics", [timestamp |-> now]), now)

(* the callback of a storage interval: monitorStorageUsage *)
StorageTick(now) ==
    /\ system.storageTimers > 0
    /\ HandleEvent("storageTick", Event("storage", [timestamp |-> now]), now)

Cleanup(now) ==
    /\ calls < MaxCalls
    /\ security' = [cleanup(security, now) EXCEPT !.sent = <<>>, !.received = <<>>]
    /\ lastCall' = [op |-> "cleanup", packet |-> <<>>, sample |-> <<>>, now |-> <<now>>,
                    after |-> ""]
    /\ calls' = calls + 1
    /\ UNCHANGED <<engineVars, lastResult, monitor, system, tz, analysed, baselineUsed,
                   emitted, returned>>

SystemControl(op, sys) ==
    /\ system' = sys
    /\ security' = [security EXCEPT !.sent = <<>>, !.received = <<>>]
    /\ lastCall' = [op |-> op, packet |-> <<>>, sample |-> <<>>, now |-> <<>>,
                    after |-> ""]
    /\ UNCHANGED <<engineVars, lastResult, monitor, tz, analysed, baselineUsed,
                   emitted, returned, calls>>

(* setPermissions(permissions), with permissions.storage as given: setupMonitoring
   calls monitorStorageUsage once if it is set *)
SetPermissions(storage, now) ==
    IF storage
    THEN /\ system' = setPermissions(system, storage)
         /\ Delivered("setPermissions", Event("storage", [timestamp |-> now]), now)
         /\ UNCHANGED <<monitor, tz, returned, calls>>
    ELSE SystemControl("setPermissions", setPermissions(system, storage))

SystemStartMonitoring ==
    /\ system.storageTimers < MaxTimers
    /\ SystemControl("systemStart", systemStartMonitoring(system))

SystemStopMonitoring == SystemControl("systemStop", systemStopMonitoring(system))

NextSecurity ==
    \/ \E callback \in {"returns", "throws"} : Subscribe(callback)
    \/ \E now \in FreshNows : \E data \in MonitorEvents(now) : MonitorEvent(data, now)
    \/ \E now \in FreshNows : MetricsTick(now)
    \/ \E now \in FreshNows : StorageTick(now)
    \/ \E now \in FreshNows : Cleanup(now)

SpecSecurity == InitSecurity /\ [][NextSecurity]_vars

(* RealTimeSystemMonitor from its construction: its timers are started and stopped,
   and their callbacks reach SecurityEngine *)
InitSystem ==
    /\ tz = 0
    /\ baseline = initializeBaseline
    /\ packetHistory = <<>>
    /\ connectionPatterns = EmptyMap
    /\ protocolStats = EmptyMap
    /\ portStats = EmptyMap
    /\ portOrder = <<>>
    /\ lastResult = <<>>
    /\ monitor = RealTimeMonitorNew("none")
    /\ security = NewSecurity
    /\ system = NewSystemMonitor
    /\ analysed = <<>>
    /\ baselineUsed = initializeBaseline
    /\ emitted = <<>>
    /\ lastCall = [op |-> "constructor", packet |-> <<>>, sample |-> <<>>, now |-> <<>>,
                   after |-> ""]
    /\ returned = <<>>
    /\ calls = 0

NextSystem ==
    \/ \E storage \in BOOLEAN, now \in FreshNows : SetPermissions(storage, now)
    \/ SystemStartMonitoring
    \/ SystemStopMonitoring
    \/ \E now \in FreshNows : MetricsTick(now)
    \/ \E now \in FreshNows : StorageTick(now)

SpecSystem == InitSystem /\ [][NextSystem]_vars

----------------------------------------------------------------------------
(* calculateAnomalyScore and determineVerdict as functions of the list of factors:
   the lists are the arrangements of up to MaxFactors of the factors below, which the
   analyzers emit for an event of 1337 bytes to port 3389 late in the evening, in a
   burst, on a connection that is new or not. *)

MaxFactors == 4

KnownFactors ==
    <<Factor("FREQUENCY", "Traffic burst detected", RatInt(90), 30, <<51>>),
      Factor("PROTOCOL", "Connection to potentially vulnerable service",
             RatInt(55), 20, <<3389>>),
      Factor("TIMING", "Off-hours network activity", RatInt(35), 10, <<23>>),
      Factor("BEHAVIOR", "New connection established", RatInt(20), 5, <<>>),
      Factor("SIGNATURE", "Known malware packet size", RatInt(95), 40, <<1337>>)>>

(* the lists of count distinct factors, in every order *)
Arrangements(count) ==
    {[i \in 1..count |-> KnownFactors[pick[i]]] :
        pick \in {f \in [1..count -> 1..Len(KnownFactors)] :
                     \A i \in 1..count, j \in 1..count : i # j => f[i] # f[j]}}

FactorLists == UNION {Arrangements(count) : count \in 1..MaxFactors}

(* One call of calculateAnomalyScore and of determineVerdict on its result *)
CalculateAnomalyScore(factors) ==
    /\ returned = <<>>
    /\ \E score \in {calculateAnomalyScore(factors)} :
          returned' = <<[factors |-> factors, score |-> score,
                         verdict |-> determineVerdict(score)]>>
    /\ lastCall' = [op |-> "calculateAnomalyScore", packet |-> <<>>, sample |-> <<>>,
                    now |-> <<>>, after |-> ""]
    /\ UNCHANGED <<engineVars, lastResult, monitor, security, tz, system, analysed,
                   baselineUsed, emitted, calls>>

NextScore == \E factors \in FactorLists : CalculateAnomalyScore(factors)

SpecScore == Init /\ [][NextScore]_vars

----------------------------------------------------------------------------
(* Properties.  A conjunct that states a fact about a function of the program, and
   not about the state, is evaluated in the initial states (calls = 0). *)

HasResult == lastResult # <<>>

Result == lastResult[1]

JustAnalysed == lastCall.op = "analyzePacket"

LastPacket == lastCall.packet[1]

JustUpdated == lastCall.op = "updateBaseline"

LastSample == Sample(lastCall.sample[1])

HasFactor(factors, description) ==
    \E i \in 1..Len(factors) : factors[i].description = description

(* Number of packets in the history that satisfy Test *)
InWindow(Test(_)) == Len(SelectSeq(packetHistory, Test))

(* C1: after any sequence of analyzePacket and updateBaseline calls, also with samples
   that move the average size of the baseline (to 0, to 350, to a fraction), the score
   of the result of analyzePacket is an integer from 0 to 100. *)
ScoreInRange == HasResult => Result.score \in 0..100

(* C1 witness: a packet has been analysed against a baseline whose average size an
   update has moved to 0, and the unusual-size factor fired *)
ScoreInRangeWitness ==
    /\ JustAnalysed
    /\ baseline.avgPacketSize.n = 0
    /\ HasFactor(Result.factors, "Unusual packet size detected")
    /\ Result.score > 0

(* The verdict the thresholds of the specification give a score *)
VerdictOfScore(score) ==
    CASE score >= 80 -> "MALICIOUS"
      [] score >= 60 /\ score <= 79 -> "ANOMALOUS"
      [] score >= 30 /\ score <= 59 -> "SUSPICIOUS"
      [] score <= 29 -> "NORMAL"

(* C2: the verdict of every result is determined by its score alone: MALICIOUS iff
   score >= 80, ANOMALOUS iff 60 <= score <= 79, SUSPICIOUS iff 30 <= score <= 59,
   NORMAL iff score <= 29; and so for every score from 0 to 100. *)
VerdictDeterminedByScore ==
    /\ HasResult => Result.verdict = VerdictOfScore(Result.score)
    /\ calls = 0 => \A score \in 0..100 : determineVerdict(score) = VerdictOfScore(score)

(* C2 witness: a result on a threshold, score 80 with verdict MALICIOUS *)
VerdictDeterminedByScoreWitness ==
    /\ JustAnalysed
    /\ Result.score = 80
    /\ Result.verdict = "MALICIOUS"

(* C3: after n calls of analyzePacket the history holds exactly the min(n, 1000) most
   recently analysed packets, most recent first; getStatistics().totalPackets is
   min(n, 1000); the history never holds more than 1000 packets. *)
HistoryIsRecentWindow ==
    LET n == Len(analysed)
        m == IF n <= 1000 THEN n ELSE 1000
    IN  /\ Len(packetHistory) = m
        /\ \A i \in 1..m : packetHistory[i] = analysed[n - i + 1]
        /\ getStatistics.totalPackets = m
        /\ Len(packetHistory) <= 1000

(* C3 witness: more than 1000 packets analysed, the oldest evicted *)
HistoryIsRecentWindowWitness ==
    /\ Len(analysed) > 1000
    /\ Len(packetHistory) = 1000
    /\ packetHistory[1000] # analysed[1]

(* The event of the end-to-end scenario *)
IsScenarioEvent(packet) ==
    /\ packet.size = 11000
    /\ packet.protocol = "TCP"
    /\ packet.destPort = 4444
    /\ packet.flags = <<>>
    /\ ~isPrivateIP(packet.sourceIP)
    /\ ~Includes(initializeBaseline.establishedConnections, packet.sourceIP)

ScenarioOutcome ==
    /\ Len(Result.factors) >= 3
    /\ HasFactor(Result.factors, "Extremely large packet detected")
    /\ HasFactor(Result.factors, "Common backdoor port")
    /\ HasFactor(Result.factors, "Connection from unknown external IP")
    /\ Result.verdict = "MALICIOUS"
    /\ Result.score >= 80

(* C4 as stated: on an engine with the default baseline, every scenario event,
   whatever its timestamp and source port, gets the three factors and MALICIOUS. *)
ScenarioAlwaysMalicious ==
    (JustAnalysed /\ baselineUsed = initializeBaseline /\ IsScenarioEvent(LastPacket))
        => ScenarioOutcome

(* No factor that pulls the scenario below 80 fires: the local hour of the timestamp
   is from 6 to 22, the source port is at most 60000, and at most 10 packets of the
   source in the history (the event included) are within 100 ms of it *)
ScenarioQuiet(packet) ==
    /\ GetHours(packet.timestamp, tz) \in 6..22
    /\ packet.sourcePort <= 60000
    /\ InWindow(LAMBDA q : q.sourceIP = packet.sourceIP
                           /\ Abs(q.timestamp - packet.timestamp) < 100) <= 10

(* C4 amended: on an engine with the default baseline, every scenario event whose
   timestamp is between 6:00 and 22:59 local time, whose source port is at most 60000
   and which has at most 10 packets of its source within 100 ms in the history gets
   the three factors and the verdict MALICIOUS (score >= 80). *)
ScenarioMaliciousWhenQuiet ==
    (JustAnalysed /\ baselineUsed = initializeBaseline /\ IsScenarioEvent(LastPacket)
     /\ ScenarioQuiet(LastPacket))
        => ScenarioOutcome

(* C4 witness: such an event has been analysed and got exactly 80 *)
ScenarioMaliciousWhenQuietWitness ==
    /\ JustAnalysed
    /\ baselineUsed = initializeBaseline
    /\ IsScenarioEvent(LastPacket)
    /\ ScenarioQuiet(LastPacket)
    /\ Result.score = 80
    /\ Result.verdict = "MALICIOUS"

(* C5: the factors of the result are in the order the analyzers pushed them (size,
   frequency, protocol, port, timing, geolocation, behaviour, signature): generating
   the explanation does not reorder them. *)
FactorsInInvocationOrder == HasResult => Result.factors = emitted

(* C6: the baseline in a result is a snapshot: after any later updateBaseline the
   baseline the result holds equals the baseline in force when it was made. *)
ResultBaselineIsSnapshot == HasResult => Deref(Result.baseline) = baselineUsed

(* C7: two engines in the same state given the same event return the same score,
   factors and verdict at whatever wall-clock times the calls are made. *)
ScoringIgnoresWallClock ==
    \A packet \in LoadedPackets : \A now1 \in Nows, now2 \in Nows :
        LET r1 == analyzePacket(packet, now1).result
            r2 == analyzePacket(packet, now2).result
        IN  /\ r1.score = r2.score
            /\ r1.factors = r2.factors
            /\ r1.verdict = r2.verdict

(* The three counters against the packets of the history with the same key *)
PortKeys == DOMAIN portStats \cup {packetHistory[i].destPort : i \in 1..Len(packetHistory)}

ProtocolKeys ==
    DOMAIN protocolStats \cup {packetHistory[i].protocol : i \in 1..Len(packetHistory)}

ConnectionKeys ==
    DOMAIN connectionPatterns
        \cup {ConnectionKey(packetHistory[i]) : i \in 1..Len(packetHistory)}

CountersVsWindow(Rel(_, _)) ==
    /\ \A k \in PortKeys :
          Rel(MapGet(portStats, k), InWindow(LAMBDA q : q.destPort = k))
    /\ \A k \in ProtocolKeys :
          Rel(MapGet(protocolStats, k), InWindow(LAMBDA q : q.protocol = k))
    /\ \A k \in ConnectionKeys :
          Rel(MapGet(connectionPatterns, k), InWindow(LAMBDA q : ConnectionKey(q) = k))

(* C8 as stated: each per-protocol, per-destination-port and per-connection counter
   equals the number of packets with that key in the history. *)
CountersMatchWindow == CountersVsWindow(LAMBDA c, w : c = w)

(* C8 amended: each counter equals the number of packets with that key in the history
   as long as at most 1000 packets have been analysed; after that, when packets have
   been evicted, a counter may be greater than that number but is never less. *)
CountersCoverWindow ==
    /\ CountersVsWindow(LAMBDA c, w : c >= w)
    /\ Len(analysed) <= 1000 => CountersVsWindow(LAMBDA c, w : c = w)

(* C8 witness: packets have been evicted and the counter of the evicted packet's port
   is above the number of packets to that port in the history *)
CountersCoverWindowWitness ==
    /\ Len(analysed) > 1000
    /\ MapGet(portStats, analysed[1].destPort)
          > InWindow(LAMBDA q : q.destPort = analysed[1].destPort)

(* C9: updateBaseline with fewer than 100 events changes no field that getBaseline
   returns. *)
ShortSampleIsNoOp ==
    [][(lastCall'.op = "updateBaseline" /\ lastCall'.sample[1].len < 100)
          => getBaseline' = getBaseline]_vars

(* C9 witness: updateBaseline was called with 99 events on an engine whose baseline
   an earlier update had changed *)
ShortSampleIsNoOpWitness ==
    /\ JustUpdated
    /\ lastCall.sample[1].len = 99
    /\ baseline # initializeBaseline

(* Number of packets of a sample to a port *)
SamplePortCount(packets, port) ==
    Cardinality({i \in 1..Len(packets) : packets[i].destPort = port})

SamplePorts(packets) == {packets[i].destPort : i \in 1..Len(packets)}

(* C10: after updateBaseline with at least 100 events, commonPorts holds at most 20
   distinct destination ports of the sample in non-increasing order of frequency, no
   port left out is more frequent than a listed one, and typicalProtocols holds
   exactly the distinct protocols of the sample. *)
CommonPortsAreTopPorts ==
    (JustUpdated /\ lastCall.sample[1].len >= 100) =>
        Let(LastSample, LAMBDA packets :
        Let([port \in SamplePorts(packets) |-> SamplePortCount(packets, port)],
            LAMBDA count :
            LET listed == baseline.commonPorts
                protocols == baseline.typicalProtocols
            IN  /\ Len(listed) <= 20
                /\ \A i \in 1..Len(listed) : listed[i] \in SamplePorts(packets)
                /\ \A i \in 1..Len(listed), j \in 1..Len(listed) :
                      /\ i # j => listed[i] # listed[j]
                      /\ i < j => count[listed[i]] >= count[listed[j]]
                /\ \A port \in SamplePorts(packets) \ Range(listed) :
                      \A i \in 1..Len(listed) : count[port] <= count[listed[i]]
                /\ Range(protocols) = {packets[i].protocol : i \in 1..Len(packets)}
                /\ \A i \in 1..Len(protocols), j \in 1..Len(protocols) :
                      i # j => protocols[i] # protocols[j]))

(* C10 witness: the sample had more than 20 destination ports and 20 are listed *)
CommonPortsAreTopPortsWitness ==
    /\ JustUpdated
    /\ lastCall.sample[1].len >= 100
    /\ Cardinality(SamplePorts(LastSample)) > 20
    /\ Len(baseline.commonPorts) = 20

(* The value getBaseline returned last *)
Returned == returned[1]

(* C11: getBaseline and getStatistics are read-only: a call of either changes neither
   the baseline nor the history nor the counters, and a call of getBaseline that
   follows a call of getBaseline with no other call between them returns an equal
   value. *)
IntrospectionIsReadOnly ==
    [][/\ lastCall'.op \in {"getBaseline", "getStatistics"} => UNCHANGED engineVars
       /\ (lastCall.op = "getBaseline" /\ lastCall'.op = "getBaseline")
             => returned' = returned]_vars

(* C11 witness: getBaseline was called a second time in a row, on an engine whose
   baseline an update had changed, and returned the changed baseline *)
IntrospectionIsReadOnlyWitness ==
    /\ lastCall.op = "getBaseline"
    /\ lastCall.after = "getBaseline"
    /\ baseline # initializeBaseline
    /\ Returned = baseline

(* A factor of the result with the given type, description, score and weight *)
ResultHas(type, description, score, weight) ==
    \E i \in 1..Len(Result.factors) :
        /\ Result.factors[i].type = type
        /\ Result.factors[i].description = description
        /\ Result.factors[i].score = RatInt(score)
        /\ Result.factors[i].weight = weight

(* Distinct destination ports of the packets of the history that come from the source
   of the last packet and lie within the 60 seconds before the call *)
PortsContacted ==
    Cardinality({packetHistory[i].destPort : i \in
        {j \in 1..Len(packetHistory) :
            /\ packetHistory[j].sourceIP = LastPacket.sourceIP
            /\ lastCall.now[1] - packetHistory[j].timestamp < 60000}})

(* C12: when the history holds packets of one source to 21 distinct destination
   ports, all within the 60 seconds before the call, the result of the call has the
   port-scan BEHAVIOR factor (score 85, weight 0.3) citing 21 ports; with exactly 20
   distinct ports it has no port-scan factor. *)
PortScanBoundary ==
    JustAnalysed =>
        /\ PortsContacted = 21 =>
              /\ ResultHas("BEHAVIOR", "Port scanning behavior detected", 85, 30)
              /\ \A i \in 1..Len(Result.factors) :
                    Result.factors[i].description = "Port scanning behavior detected"
                        => Result.factors[i].evidence = <<21>>
        /\ PortsContacted = 20 =>
              ~HasFactor(Result.factors, "Port scanning behavior detected")

(* C12 witness: the 21st port of a source has been contacted and the factor is there *)
PortScanBoundaryWitness ==
    /\ JustAnalysed
    /\ PortsContacted = 21
    /\ LastPacket.destPort = 2021
    /\ ResultHas("BEHAVIOR", "Port scanning behavior detected", 85, 30)

(* The benign event of the cold-start guarantee: no analyzer but the one of new
   connections has anything to report on it against the default baseline *)
IsBenignEvent(packet) ==
    /\ packet.size \in 20..1536
    /\ packet.protocol = "TCP"
    /\ packet.destPort = 80
    /\ isPrivateIP(packet.sourceIP)
    /\ GetHours(packet.timestamp, tz) \in 6..22
    /\ packet.sourcePort <= 60000
    /\ packet.size # 1337
    /\ packet.sourcePort \notin {4444, 31337}
    /\ ~(Includes(packet.flags, "SYN") /\ Includes(packet.flags, "FIN"))

(* The first call of analyzePacket on an engine with the default baseline *)
ColdStart ==
    /\ JustAnalysed
    /\ Len(analysed) = 1
    /\ baselineUsed = initializeBaseline

(* C13 as stated: at cold start a benign event gets an empty factor list, a score of 0
   and the verdict NORMAL. *)
ColdStartNoFactors ==
    (ColdStart /\ IsBenignEvent(LastPacket)) =>
        /\ Result.factors = <<>>
        /\ Result.score = 0
        /\ Result.verdict = "NORMAL"

(* C13 amended: analyzePacket returns a result, and at cold start a benign event (size
   20 to 1536, TCP, destination port 80, private source, local hour 6 to 22, source
   port at most 60000, no signature match) gets exactly one factor, the new-connection
   BEHAVIOR factor (score 20, weight 0.05), a score of 20 and the verdict NORMAL. *)
ColdStartNewConnectionOnly ==
    /\ JustAnalysed => HasResult
    /\ (ColdStart /\ IsBenignEvent(LastPacket)) =>
          /\ Len(Result.factors) = 1
          /\ ResultHas("BEHAVIOR", "New connection established", 20, 5)
          /\ Result.score = 20
          /\ Result.verdict = "NORMAL"

(* C13 witness: the first event of an engine was benign, of the largest size that is
   not unusual, and scored 20 *)
ColdStartNewConnectionOnlyWitness ==
    /\ ColdStart
    /\ IsBenignEvent(LastPacket)
    /\ LastPacket.size = 1536
    /\ Result.score = 20

(* The SIGNATURE factor of the packet size 1337 among the factors *)
HasSizeSignature(factors) ==
    \E i \in 1..Len(factors) :
        /\ factors[i].type = "SIGNATURE"
        /\ factors[i].description = "Known malware packet size"
        /\ factors[i].score = RatInt(95)
        /\ factors[i].weight = 40

(* C14: in every engine state and for every value of the other fields, the analysis
   of an event of size 1337 has a SIGNATURE factor with score 95 and weight 0.4. *)
SizeSignatureAlways ==
    /\ (JustAnalysed /\ LastPacket.size = 1337) => HasSizeSignature(Result.factors)
    /\ calls = 0 =>
          \A packet \in Packets :
              HasSizeSignature(analyzeSignatures([packet EXCEPT !.size = 1337]))

(* C14 witness: an event of size 1337 was analysed after other calls had changed the
   baseline and the history *)
SizeSignatureAlwaysWitness ==
    /\ JustAnalysed
    /\ LastPacket.size = 1337
    /\ baseline # initializeBaseline
    /\ Len(packetHistory) > 1
    /\ HasSizeSignature(Result.factors)

(* Flag lists of up to three flags, with repetitions and in every order *)
FlagLists ==
    UNION {[1..n -> {"SYN", "FIN", "ACK"}] : n \in 0..3}

HasFlagSignature(factors) ==
    \E i \in 1..Len(factors) :
        /\ factors[i].type = "SIGNATURE"
        /\ factors[i].description = "Invalid TCP flag combination"
        /\ factors[i].score = RatInt(90)
        /\ factors[i].weight = 35

SynAndFin(flags) == "SYN" \in Range(flags) /\ "FIN" \in Range(flags)

(* C15: in every engine state, an event whose flags contain both SYN and FIN, in any
   order and with any other flags or duplicates, gets the invalid-flag-combination
   SIGNATURE factor (score 90, weight 0.35), and an event that lacks one of the two
   flags does not get it. *)
FlagCombinationRule ==
    /\ JustAnalysed =>
          (HasFlagSignature(Result.factors) <=> SynAndFin(LastPacket.flags))
    /\ calls = 0 =>
          \A flags \in FlagLists :
              HasFlagSignature(analyzeSignatures([Benign EXCEPT !.flags = flags]))
                  <=> SynAndFin(flags)

(* C15 witness: an event with the flags FIN, SYN, FIN was analysed and got the factor *)
FlagCombinationRuleWitness ==
    /\ JustAnalysed
    /\ LastPacket.flags = <<"FIN", "SYN", "FIN">>
    /\ HasFlagSignature(Result.factors)

(* Number of analyzePacket calls ever made with a packet that satisfies Test *)
EverAnalysed(Test(_)) == Cardinality({i \in 1..Len(analysed) : Test(analysed[i])})

(* Every counter equals the number of calls ever made with its key *)
CountersCountCalls ==
    /\ \A k \in DOMAIN portStats \cup {analysed[i].destPort : i \in 1..Len(analysed)} :
          MapGet(portStats, k) = EverAnalysed(LAMBDA q : q.destPort = k)
    /\ \A k \in DOMAIN protocolStats \cup {analysed[i].protocol : i \in 1..Len(analysed)} :
          MapGet(protocolStats, k) = EverAnalysed(LAMBDA q : q.protocol = k)
    /\ \A k \in DOMAIN connectionPatterns
                  \cup {ConnectionKey(analysed[i]) : i \in 1..Len(analysed)} :
          MapGet(connectionPatterns, k) = EverAnalysed(LAMBDA q : ConnectionKey(q) = k)

(* The counters of the Map after a step against those before it: the one of key is
   one greater, the others are the same *)
OnlyCounted(before, after, key) ==
    /\ DOMAIN after = DOMAIN before \cup {key}
    /\ \A k \in DOMAIN after :
          after[k] = MapGet(before, k) + (IF k = key THEN 1 ELSE 0)

(* C18: the counters are lifetime counters: each per-protocol, per-destination-port
   and per-(source,destination) counter equals the number of analyzePacket calls ever
   made with that key, also after packets with the key have left the 1000-packet
   history; and each call increases exactly one counter of each kind by 1 and leaves
   the others unchanged. *)
CountersAreLifetime ==
    /\ []CountersCountCalls
    /\ [][lastCall'.op = "analyzePacket" =>
            /\ OnlyCounted(portStats, portStats', lastCall'.packet[1].destPort)
            /\ OnlyCounted(protocolStats, protocolStats', lastCall'.packet[1].protocol)
            /\ OnlyCounted(connectionPatterns, connectionPatterns',
                           ConnectionKey(lastCall'.packet[1]))]_vars

(* C18 witness: the one packet ever sent to a port has left the history and the
   counter of the port is still 1 *)
CountersAreLifetimeWitness ==
    /\ Len(analysed) > 1000
    /\ EverAnalysed(LAMBDA q : q.destPort = analysed[1].destPort) = 1
    /\ InWindow(LAMBDA q : q.destPort = analysed[1].destPort) = 0
    /\ MapGet(portStats, analysed[1].destPort) = 1

(* C19: the new-connection BEHAVIOR factor (score 20, weight 0.05) is in the result of
   the first analyzePacket call for a (source,destination) pair and in the result of
   no later call for the pair, also after the first packet of the pair has left the
   history. *)
NewConnectionOnFirstCall ==
    JustAnalysed =>
        /\ ResultHas("BEHAVIOR", "New connection established", 20, 5)
              <=> EverAnalysed(LAMBDA q : ConnectionKey(q) = ConnectionKey(LastPacket)) = 1
        /\ HasFactor(Result.factors, "New connection established")
              => ResultHas("BEHAVIOR", "New connection established", 20, 5)

(* C19 witness: a packet of a pair whose first packet has left the history was
   analysed and got no new-connection factor *)
NewConnectionOnFirstCallWitness ==
    /\ JustAnalysed
    /\ Len(analysed) > 1000
    /\ ConnectionKey(LastPacket) = ConnectionKey(analysed[1])
    /\ ~HasFactor(Result.factors, "New connection established")

(* Packets of the history, the last packet included, from the source of the last
   packet and less than 100 ms from its timestamp on either side *)
PacketsNearby ==
    InWindow(LAMBDA q : q.sourceIP = LastPacket.sourceIP
                        /\ Abs(q.timestamp - LastPacket.timestamp) < 100)

(* C20 as stated: the rapid-sequential TIMING factor (score 70, weight 0.2) is emitted
   whenever the history, the event included, holds at least 10 events of the source
   less than 100 ms from the event. *)
RapidFromTenEvents ==
    (JustAnalysed /\ PacketsNearby >= 10)
        => ResultHas("TIMING", "Rapid sequential connections", 70, 20)

(* C20 amended: the rapid-sequential TIMING factor (score 70, weight 0.2) is emitted
   exactly when the history, the event included, holds more than 10 events of the
   source less than 100 ms from the event: the event and at least 10 others. *)
RapidAboveTenEvents ==
    JustAnalysed =>
        (ResultHas("TIMING", "Rapid sequential connections", 70, 20)
            <=> PacketsNearby > 10)

(* C20 witness: the event and 10 others are within 100 ms and the factor is there *)
RapidAboveTenEventsWitness ==
    /\ JustAnalysed
    /\ PacketsNearby = 11
    /\ ResultHas("TIMING", "Rapid sequential connections", 70, 20)

(* The last step was one in which SecurityEngine handled a 'packet' event *)
JustHandledPacket == lastCall.op \in {"simulatedTick", "resourceEntry"} /\ lastCall.packet # <<>>

(* The 'threat' notifications SecurityEngine sent while it handled the 'packet' event *)
ThreatsSentOnPacket(sent) ==
    {i \in 1..Len(sent) : sent[i].type = "threat" /\ sent[i].on = "packet"}

(* C16: whenever SecurityEngine handles a 'packet' event and analyzePacket returns
   SUSPICIOUS, ANOMALOUS or MALICIOUS, a threat alert is stored and a 'threat'
   notification is sent to the subscribers; for the verdict NORMAL none is. *)
AlertForEveryVerdictButNormal ==
    JustHandledPacket =>
        /\ Result.verdict # "NORMAL" =>
              \E i \in ThreatsSentOnPacket(security.sent) :
                  \E j \in 1..Len(security.alerts) :
                      security.alerts[j] = security.sent[i].data[1]
        /\ Result.verdict = "NORMAL" => ThreatsSentOnPacket(security.sent) = {}

(* A resource-timing entry was delivered and the monitor sent a 'packet' notification
   for it *)
PacketSentForEntry ==
    /\ lastCall.op = "resourceEntry"
    /\ \E i \in 1..Len(monitor.sent) : monitor.sent[i].type = "packet"

(* C17: after startMonitoring has been called, a resource-timing entry the browser
   records eventually produces a 'packet' notification to the subscribers of
   RealTimeMonitor. *)
MonitoringStartsCapture ==
    (monitor.isMonitoring /\ monitor.unreported > 0) ~> PacketSentForEntry

(* Events to the port of the last packet that were analysed before the last packet *)
PreviousToPort == EverAnalysed(LAMBDA q : q.destPort = LastPacket.destPort) - 1

(* C21: for a destination port that is not in commonPorts the uncommon-port factor is
   emitted exactly when fewer than 5 events to that port were analysed before the
   current one, and the count it reports as "previous connections" is the number of
   events to that port analysed before the current one. *)
UncommonPortCountsPrevious ==
    (JustAnalysed /\ ~Includes(baselineUsed.commonPorts, LastPacket.destPort)) =>
        /\ HasFactor(Result.factors, "Connection to uncommon port") <=> PreviousToPort < 5
        /\ \A i \in 1..Len(Result.factors) :
              Result.factors[i].description = "Connection to uncommon port"
                  => Result.factors[i].evidence = <<LastPacket.destPort, PreviousToPort>>

(* C26: updateBaseline changes only avgPacketSize, typicalProtocols and commonPorts:
   normalFrequency is always 10 and establishedConnections always the initial list of
   three addresses, and no updateBaseline call changes the history or the connection,
   protocol and port counters. *)
UpdateBaselineFrame ==
    /\ [](/\ baseline.normalFrequency = 10
          /\ baseline.establishedConnections = initializeBaseline.establishedConnections
          /\ Len(baseline.establishedConnections) = 3)
    /\ [][lastCall'.op = "updateBaseline" => UNCHANGED <<packetHistory, connectionPatterns, protocolStats,
                                                     portStats, portOrder>>]_vars

(* C26 witness: an updateBaseline call has replaced the three fields it computes while
   the engine holds a history and counters *)
UpdateBaselineFrameWitness ==
    /\ JustUpdated
    /\ baseline.avgPacketSize # initializeBaseline.avgPacketSize
    /\ baseline.typicalProtocols # initializeBaseline.typicalProtocols
    /\ baseline.commonPorts # initializeBaseline.commonPorts
    /\ packetHistory # <<>>
    /\ portStats # EmptyMap

(* C27: the score is 0 exactly when no factor fired, and at least 20 whenever a factor
   fired: no result has a score from 1 to 19. *)
ZeroScoreIffNoFactor ==
    HasResult =>
        /\ Result.score = 0 <=> Result.factors = <<>>
        /\ Result.factors # <<>> => Result.score >= 20
        /\ Result.score \notin 1..19

(* C27 witness: the second event of a connection fired no factor and scored 0, after
   a first one that had fired the new-connection factor alone *)
ZeroScoreIffNoFactorWitness ==
    /\ JustAnalysed
    /\ Len(analysed) = 2
    /\ Result.factors = <<>>
    /\ Result.score = 0

(* C30: whenever the high-frequency factor is emitted its score is exactly 100. *)
HighFrequencyScoresHundred ==
    JustAnalysed =>
        \A i \in 1..Len(Result.factors) :
            Result.factors[i].description = "High frequency traffic from source"
                => Result.factors[i].score = RatInt(100)

(* C30 witness: the factor is emitted for 501 packets in ten seconds, the fewest for
   which frequency > normalFrequency * 5 *)
HighFrequencyScoresHundredWitness ==
    /\ JustAnalysed
    /\ \E i \in 1..Len(Result.factors) :
          /\ Result.factors[i].description = "High frequency traffic from source"
          /\ Result.factors[i].evidence = <<50 * baseline.normalFrequency + 1>>
          /\ Result.factors[i].score = RatInt(100)

(* The orders in which a list of factors can be combined *)
Reorderings(factors) ==
    {[i \in 1..Len(factors) |-> factors[order[i]]] :
        order \in Permutations(1..Len(factors))}

(* C25: the aggregate score does not depend on the order in which the factors are
   combined: every permutation of a list of factors yields the same score and the
   same verdict. *)
ScoreIgnoresFactorOrder ==
    lastCall.op = "calculateAnomalyScore" =>
        \A reordered \in Reorderings(Returned.factors) :
            /\ calculateAnomalyScore(reordered) = Returned.score
            /\ determineVerdict(calculateAnomalyScore(reordered)) = Returned.verdict

(* C29: after stopMonitoring no periodic 'metrics' or 'storage' notification is
   delivered until startMonitoring is called again, so the callback of a metrics or
   storage interval runs only while intervalId is set, and start and stop in any
   order leave at most one storage interval running (the metrics interval is the
   one intervalId names) *)
TimersStopWithMonitoring ==
    /\ [](system.storageTimers <= 1)
    /\ [][lastCall'.op \in {"metricsTick", "storageTick"} => system.intervalId # <<>>]_vars

(* C22: SecurityEngine never invokes updateBaseline more than once per 100 packets
   it has processed: between any two invocations it has processed at least
   BaselineEvery packets, in particular at least one, whatever the order of the
   'packet' and 'metrics' events *)
BaselineOncePerHundred ==
    \A i, j \in 1..Len(security.updatedAt) :
        i < j => security.updatedAt[j] - security.updatedAt[i] >= BaselineEvery

(* the times listener i was invoked, in the last step, with a notification of the
   given type *)
Receipts(i, type) ==
    Cardinality({k \in 1..Len(security.received) :
                    /\ security.received[k].listener = i
                    /\ security.received[k].type = type})

(* C28: a call of SecurityEngine.notifyListeners terminates also when a subscribed
   listener throws on every invocation, and every other subscriber receives the
   original event exactly once: each listener that returns has been invoked once
   with each notification of the last step that is not an error report *)
EverySubscriberReceivesOnce ==
    \A k \in 1..Len(security.sent) :
        security.sent[k].type # "error" =>
            \A i \in 1..Len(security.listeners) :
                security.listeners[i] = "returns" => Receipts(i, security.sent[k].type) = 1

(* the alerts SecurityEngine created from the analysis of a packet in the last step *)
AlertsCreated ==
    {security.sent[k].data[1] :
        k \in {n \in 1..Len(security.sent) :
                  security.sent[n].type = "threat" /\ security.sent[n].on = "packet"}}

(* C24: an alert SecurityEngine creates from an analysis has the analysis score as
   its confidence and is blocked exactly when the score is above 70; one created
   from a MALICIOUS verdict is blocked and CRITICAL.  The alert is created only for
   the verdicts ANOMALOUS and MALICIOUS and is put first in the list of alerts. *)
AlertsFollowAnalysis ==
    \A alert \in AlertsCreated :
        /\ lastResult # <<>>
        /\ lastResult[1].verdict \in {"ANOMALOUS", "MALICIOUS"}
        /\ alert.confidence = <<lastResult[1].score>>
        /\ alert.blocked <=> lastResult[1].score > 70
        /\ lastResult[1].verdict = "MALICIOUS" =>
               alert.blocked /\ alert.severity = "CRITICAL"
        /\ security.alerts # <<>> /\ security.alerts[1] = alert

(* an alert was created from an ANOMALOUS verdict with a score above 70, and is
   blocked; the alerts hold a CRITICAL one created from a packet as well *)
AlertsFollowAnalysisWitness ==
    /\ \E alert \in AlertsCreated :
          /\ lastResult[1].verdict = "ANOMALOUS"
          /\ lastResult[1].score > 70
          /\ alert.blocked
          /\ alert.severity = "HIGH"
    /\ \E k \in 1..Len(security.alerts) :
          /\ security.alerts[k].type = "ANOMALY"
          /\ security.alerts[k].severity = "CRITICAL"
          /\ security.alerts[k].blocked

(* new is old with one datum put first and cut to cap entries *)
PushedFirst(new, old, cap) == new # <<>> /\ Tail(new) = Take(old, cap - 1)

(* new is what cleanup at now keeps of old, in the order of old *)
KeptRecent(new, old, now, Stamp(_)) ==
    new = Filter(old, LAMBDA x : Stamp(x) > now - RetentionMs)

TimestampOf(x) == x.timestamp

PacketTimestampOf(x) == x.packet.timestamp

(* C23: after any 'packet', 'threat', 'metrics' and 'log' events and cleanup calls
   SecurityEngine stores at most 1000 packets, 500 alerts, 100 metrics and 1000
   logs, and a 'packets' notification carries the 50 most recent packets at most.
   Each list is most recent first: an event puts its datum first and leaves the
   others in their order, the oldest falling out at the cap, and cleanup removes
   entries without reordering the rest. *)
ListsCappedRecentFirst ==
    /\ [](/\ Len(security.packets) <= SecurityPacketCap
          /\ Len(security.alerts) <= AlertCap
          /\ Len(security.metrics) <= MetricsCap
          /\ Len(security.logs) <= LogCap
          /\ \A k \in 1..Len(security.sent) :
                security.sent[k].type = "packets" =>
                    /\ Len(security.sent[k].data) <= PacketsShown
                    /\ security.sent[k].data = Take(security.packets, PacketsShown))
    /\ [][/\ lastCall'.op \in {"event", "metricsTick", "storageTick"} =>
              /\ IF lastCall'.packet[1].type = "packet"
                 THEN /\ PushedFirst(security'.packets, security.packets,
                                     SecurityPacketCap)
                      /\ security'.packets[1].packet = lastCall'.packet[1].data
                 ELSE security'.packets = security.packets
              /\ CASE lastCall'.packet[1].type = "packet" ->
                          \/ security'.alerts = security.alerts
                          \/ /\ PushedFirst(security'.alerts, security.alerts, AlertCap)
                             /\ security'.alerts[1] \in AlertsCreated'
                   [] lastCall'.packet[1].type = "threat" ->
                          /\ PushedFirst(security'.alerts, security.alerts, AlertCap)
                          /\ security'.alerts[1] = lastCall'.packet[1].data
                   [] OTHER -> security'.alerts = security.alerts
              /\ IF lastCall'.packet[1].type = "metrics"
                 THEN /\ PushedFirst(security'.metrics, security.metrics, MetricsCap)
                      /\ security'.metrics[1] = lastCall'.packet[1].data
                 ELSE security'.metrics = security.metrics
              /\ IF lastCall'.packet[1].type = "log"
                 THEN /\ PushedFirst(security'.logs, security.logs, LogCap)
                      /\ security'.logs[1] = lastCall'.packet[1].data
                 ELSE security'.logs = security.logs
          /\ lastCall'.op = "cleanup" =>
              /\ KeptRecent(security'.packets, security.packets, lastCall'.now[1],
                            PacketTimestampOf)
              /\ KeptRecent(security'.alerts, security.alerts, lastCall'.now[1],
                            TimestampOf)
              /\ KeptRecent(security'.metrics, security.metrics, lastCall'.now[1],
                            TimestampOf)
              /\ KeptRecent(security'.logs, security.logs, lastCall'.now[1],
                            TimestampOf)
          /\ lastCall'.op = "subscribe" =>
              /\ security'.packets = security.packets
              /\ security'.alerts = security.alerts
              /\ security'.metrics = security.metrics
              /\ security'.logs = security.logs]_vars

(* every list is full, and since it became full an event of each kind has been
   handled, a 'log' event last, and has pushed the oldest entry out *)
ListsCappedRecentFirstWitness ==
    /\ Len(security.packets) = SecurityPacketCap
    /\ Len(security.alerts) = AlertCap
    /\ Len(security.metrics) = MetricsCap
    /\ Len(security.logs) = LogCap
    /\ security.packets[SecurityPacketCap].packet.timestamp = LoadStamp(2, SecurityPacketCap)
    /\ security.alerts[AlertCap].timestamp = LoadStamp(2, AlertCap)
    /\ security.metrics[MetricsCap].timestamp = LoadStamp(2, MetricsCap)
    /\ security.logs[1].timestamp > Noon
    /\ security.logs[LogCap].timestamp = LoadStamp(2, LogCap)
    /\ lastCall.op = "event"
    /\ lastCall.packet[1].type = "log"

====
